---- MODULE Spec2Model ----
(***************************************************************************)
(* Model of pocketcrud's schema-to-form pipeline (src/utils/form-utils.js):*)
(* getFormFieldConfig, getFormFields, validateFormData, prepareFormData.   *)
(*                                                                         *)
(* JavaScript values are tagged records [t |-> <type>, v |-> <payload>].   *)
(* JavaScript strings are sequences of one-character strings, so that the  *)
(* conversions the code relies on (Number, String, charAt/toUpperCase, the *)
(* e-mail regular expression, JSON.parse) are computed and not tabulated.  *)
(* A template literal is modelled by the tuple of its parts.               *)
(***************************************************************************)
EXTENDS Integers, Sequences, FiniteSets, TLC

VARIABLES schema, data, overrides, call, isoDateString, env,
          framework, formData, errors, isSubmitting, submitted,
          collection, options, pbCalls, pbResponses, managers, manager, list

\* the variables of the other components, which a form-utils call on a schema
\* leaves alone
dateVars == <<isoDateString, env>>
formVars == <<framework, formData, errors, isSubmitting, submitted>>
crudVars == <<collection, options, pbCalls, pbResponses>>
viewVars == <<managers, manager, list>>
others == <<dateVars, formVars, crudVars, viewVars>>

vars == <<schema, data, overrides, call, others>>

-----------------------------------------------------------------------------
(* JavaScript values                                                       *)

Undefined == [t |-> "undefined", v |-> 0]
Null == [t |-> "null", v |-> 0]
NaN == [t |-> "nan", v |-> 0]
Num(n) == [t |-> "number", v |-> n]
Bool(b) == [t |-> "boolean", v |-> b]
Str(s) == [t |-> "string", v |-> s]
Arr(a) == [t |-> "array", v |-> a]
Obj == [t |-> "object", v |-> 0]

\* value === undefined, value === null
IsUndefined(x) == x.t = "undefined"
IsNull(x) == x.t = "null"

\* typeof value === 'string'
IsString(x) == x.t = "string"

\* Array.isArray(value)
IsArray(x) == x.t = "array"

\* ToBoolean: undefined, null, NaN, 0, false and '' are falsy, all else truthy
Truthy(x) ==
  CASE x.t \in {"undefined", "null", "nan"} -> FALSE
    [] x.t = "number" -> x.v # 0
    [] x.t = "boolean" -> x.v
    [] x.t = "string" -> x.v # <<>>
    [] OTHER -> TRUE

\* Boolean(value)
ToBooleanValue(x) == Bool(Truthy(x))

-----------------------------------------------------------------------------
(* Strings                                                                 *)

Digits == <<"0", "1", "2", "3", "4", "5", "6", "7", "8", "9">>
Lower == <<"a", "b", "c", "d", "e", "f", "g", "h", "i", "j", "k", "l", "m",
           "n", "o", "p", "q", "r", "s", "t", "u", "v", "w", "x", "y", "z">>
Upper == <<"A", "B", "C", "D", "E", "F", "G", "H", "I", "J", "K", "L", "M",
           "N", "O", "P", "Q", "R", "S", "T", "U", "V", "W", "X", "Y", "Z">>

Range(f) == {f[i] : i \in DOMAIN f}
IndexOf(seq, c) == CHOOSE i \in DOMAIN seq : seq[i] = c

IsDigit(c) == c \in Range(Digits)
IsSpace(c) == c \in {" ", "\t", "\n"}

\* String.prototype.toUpperCase on one character
ToUpperCase(c) == IF c \in Range(Lower) THEN Upper[IndexOf(Lower, c)] ELSE c

\* the name taken as it is
Capitalize_Unchanged(s) == s

\* name.charAt(0).toUpperCase() + name.slice(1)
Capitalize(s) == IF s = <<>> THEN <<>> ELSE <<ToUpperCase(s[1])>> \o Tail(s)

RECURSIVE TrimStart(_)
TrimStart(s) == IF s # <<>> /\ IsSpace(s[1]) THEN TrimStart(Tail(s)) ELSE s

RECURSIVE TrimEnd(_)
TrimEnd(s) ==
  IF s # <<>> /\ IsSpace(s[Len(s)]) THEN TrimEnd(SubSeq(s, 1, Len(s) - 1)) ELSE s

Trim(s) == TrimEnd(TrimStart(s))

\* decimal value of a non-empty sequence of digits
RECURSIVE DigitsValue(_)
DigitsValue(s) ==
  IF s = <<>> THEN 0
  ELSE 10 * DigitsValue(SubSeq(s, 1, Len(s) - 1)) + (IndexOf(Digits, s[Len(s)]) - 1)

\* decimal digits of a natural number
RECURSIVE NatToString(_)
NatToString(n) ==
  IF n < 10 THEN <<Digits[n + 1]>>
  ELSE NatToString(n \div 10) \o <<Digits[(n % 10) + 1]>>

RECURSIVE ToStringValue(_)

\* Array.prototype.join(','): null and undefined elements give ''
RECURSIVE Join(_)
Join(a) ==
  LET ElementString(x) ==
        IF IsUndefined(x) \/ IsNull(x) THEN <<>> ELSE ToStringValue(x)
  IN  IF a = <<>> THEN <<>>
      ELSE IF Len(a) = 1 THEN ElementString(a[1])
      ELSE ElementString(a[1]) \o <<",">> \o Join(Tail(a))

\* String(value)
ToStringValue(x) ==
  CASE x.t = "string" -> x.v
    [] x.t = "number" ->
         IF x.v < 0 THEN <<"-">> \o NatToString(-x.v) ELSE NatToString(x.v)
    [] x.t = "nan" -> <<"N", "a", "N">>
    [] x.t = "boolean" ->
         IF x.v THEN <<"t", "r", "u", "e">> ELSE <<"f", "a", "l", "s", "e">>
    [] x.t = "array" -> Join(x.v)
    [] x.t = "null" -> <<"n", "u", "l", "l">>
    [] x.t = "undefined" -> <<"u", "n", "d", "e", "f", "i", "n", "e", "d">>
    [] OTHER -> <<"[", "o", "b", "j", "e", "c", "t", " ", "O", "b", "j", "e", "c", "t", "]">>

\* StringToNumber: surrounding white space is ignored, the empty string is 0,
\* an unsigned decimal integer is its value, anything else is NaN
StringToNumber(s) ==
  LET body == Trim(s)
  IN  IF body = <<>> THEN Num(0)
      ELSE IF \A i \in DOMAIN body : IsDigit(body[i]) THEN Num(DigitsValue(body))
      ELSE NaN

\* Number(value)
ToNumber(x) ==
  CASE x.t \in {"number", "nan"} -> x
    [] x.t = "undefined" -> NaN
    [] x.t = "null" -> Num(0)
    [] x.t = "boolean" -> IF x.v THEN Num(1) ELSE Num(0)
    [] x.t = "string" -> StringToNumber(x.v)
    [] x.t = "array" -> StringToNumber(Join(x.v))
    [] OTHER -> NaN

\* isNaN(n) for a value that is already a number
IsNaN(n) == n.t = "nan"

-----------------------------------------------------------------------------
(* Platform services used by the validator and the preparer                *)

IsAlpha(c) == c \in Range(Lower) \cup Range(Upper)
IsSchemeChar(c) == IsAlpha(c) \/ IsDigit(c) \/ c \in {"+", "-", "."}

\* /^[^\s@]+@[^\s@]+\.[^\s@]+$/.test(s)
EmailRegexTest(s) ==
  \E i \in DOMAIN s, j \in DOMAIN s :
    /\ s[i] = "@" /\ s[j] = "."
    /\ 1 < i /\ i + 1 < j /\ j < Len(s)
    /\ \A k \in DOMAIN s \ {i} : ~IsSpace(s[k]) /\ s[k] # "@"

\* schemes for which the URL parser demands a host
SpecialSchemes ==
  { <<"h", "t", "t", "p">>, <<"h", "t", "t", "p", "s">>, <<"f", "t", "p">>,
    <<"w", "s">>, <<"w", "s", "s">> }

RECURSIVE StripSlashes(_)
StripSlashes(s) ==
  IF s # <<>> /\ s[1] \in {"/", "\\"} THEN StripSlashes(Tail(s)) ELSE s

\* new URL(s) without a base returns (TRUE) or throws TypeError (FALSE): the
\* input needs a scheme, and a special scheme needs a non-empty host
URLParses(s) ==
  LET body == Trim(s)
  IN  \E k \in DOMAIN body :
        /\ k > 1 /\ body[k] = ":"
        /\ IsAlpha(body[1])
        /\ \A m \in 2..(k - 1) : IsSchemeChar(body[m])
        /\ SubSeq(body, 1, k - 1) \in SpecialSchemes
             => StripSlashes(SubSeq(body, k + 1, Len(body))) # <<>>

\* regular-expression sources of the model
PatternLower == "^[a-z]+$"
PatternUnterminated == "[a-z"

\* new RegExp(pattern) returns (TRUE) or throws SyntaxError (FALSE)
RegExpCompiles(pattern) == pattern # PatternUnterminated

\* new RegExp(pattern).test(s) for a pattern that compiles
RegExpTest(pattern, s) ==
  IF pattern = PatternLower
  THEN s # <<>> /\ \A i \in DOMAIN s : s[i] \in Range(Lower)
  ELSE TRUE

\* JSON.parse(s): [ok |-> TRUE, value |-> parsed] or, on SyntaxError,
\* [ok |-> FALSE, value |-> Undefined].  Covers the literals, unsigned
\* integers, simple quoted strings, and the empty object and array.
JSONParse(s) ==
  LET body == Trim(s)
      n == Len(body)
      Ok(x) == [ok |-> TRUE, value |-> x]
  IN  CASE body = <<"n", "u", "l", "l">> -> Ok(Null)
        [] body = <<"t", "r", "u", "e">> -> Ok(Bool(TRUE))
        [] body = <<"f", "a", "l", "s", "e">> -> Ok(Bool(FALSE))
        [] body = <<"{", "}">> -> Ok(Obj)
        [] body = <<"[", "]">> -> Ok(Arr(<<>>))
        [] /\ n > 0
           /\ \A i \in 1..n : IsDigit(body[i])
           /\ (n > 1 => body[1] # "0") -> Ok(Num(DigitsValue(body)))
        [] /\ n >= 2 /\ body[1] = "\"" /\ body[n] = "\""
           /\ \A i \in 2..(n - 1) : body[i] \notin {"\"", "\\"} ->
             Ok(Str(SubSeq(body, 2, n - 1)))
        [] OTHER -> [ok |-> FALSE, value |-> Undefined]

-----------------------------------------------------------------------------
(* Field descriptors (CollectionField) and form field configurations       *)

\* field.options?.<key> : the options bag is a function whose domain holds
\* the keys that are set
HasOption(field, key) == key \in DOMAIN field.options

\* field.options?.maxSelect && field.options.maxSelect > 1
IsMultiple(field) == HasOption(field, "maxSelect") /\ field.options.maxSelect > 1

NameId == <<"i", "d">>

\* Object.assign(target, source)
ObjectAssign(target, source) ==
  [k \in DOMAIN target \cup DOMAIN source |->
     IF k \in DOMAIN source THEN source[k] ELSE target[k]]

\* the object literal with another default input kind
BaseConfig_TypeTextarea(field) ==
  [name |-> field.name,
   label |-> Capitalize(field.name),
   type |-> "textarea",
   required |-> field.required,
   placeholder |-> <<"Enter ", field.name>>,
   value |-> ""]

\* the object literal that getFormFieldConfig starts from
BaseConfig(field) ==
  [name |-> field.name,
   label |-> Capitalize(field.name),
   type |-> "text",
   required |-> field.required,
   placeholder |-> <<"Enter ", field.name>>,
   value |-> ""]

\* copies of options.min / options.max when they are set
WithMinMax(field, config) ==
  LET c1 == IF HasOption(field, "min")
            THEN ObjectAssign(config, [min |-> field.options.min]) ELSE config
  IN  IF HasOption(field, "max")
      THEN ObjectAssign(c1, [max |-> field.options.max]) ELSE c1

\* the switch on field.type
TypeConfig(field, config) ==
  CASE field.type = "email" ->
         ObjectAssign(config, [type |-> "email", placeholder |-> <<"Enter email address">>])
    [] field.type = "url" ->
         ObjectAssign(config, [type |-> "url", placeholder |-> <<"Enter URL">>])
    [] field.type = "number" ->
         WithMinMax(field,
           ObjectAssign(config, [type |-> "number", placeholder |-> <<"Enter number">>]))
    [] field.type = "date" -> ObjectAssign(config, [type |-> "date"])
    [] field.type = "bool" -> ObjectAssign(config, [type |-> "checkbox", value |-> "false"])
    [] field.type = "select" ->
         ObjectAssign(config,
           [type |-> "select",
            options |-> IF HasOption(field, "values") THEN field.options.values ELSE <<>>,
            multiple |-> IsMultiple(field)])
    [] field.type = "relation" ->
         ObjectAssign(config,
           [type |-> "select", options |-> <<>>, multiple |-> IsMultiple(field)])
    [] field.type = "file" ->
         IF IsMultiple(field)
         THEN ObjectAssign(config, [type |-> "file", multiple |-> TRUE])
         ELSE ObjectAssign(config, [type |-> "file"])
    [] field.type = "json" ->
         ObjectAssign(config,
           [type |-> "textarea", rows |-> 4, placeholder |-> <<"Enter JSON data">>])
    [] field.type = "editor" -> ObjectAssign(config, [type |-> "textarea", rows |-> 8])
    [] OTHER ->
         WithMinMax(field,
           IF HasOption(field, "pattern") /\ field.options.pattern # ""
           THEN ObjectAssign(config, [pattern |-> field.options.pattern])
           ELSE config)

\* special handling of the id field that leaves required alone
IdConfig_KeepsRequired(field, config) ==
  IF field.name = NameId
  THEN ObjectAssign(config, [label |-> <<"I", "D">>, placeholder |-> <<"Auto-generated">>])
  ELSE config

\* special handling of the id field
IdConfig(field, config) ==
  IF field.name = NameId
  THEN ObjectAssign(config,
         [label |-> <<"I", "D">>, placeholder |-> <<"Auto-generated">>, required |-> FALSE])
  ELSE config

\* overrides && overrides[field.name]
HasOverride(ovr, name) == ovr.given /\ name \in DOMAIN ovr.map

\* the merge in which the derived configuration wins over the override
ApplyOverrides_DerivedWins(field, ovr, config) ==
  IF HasOverride(ovr, field.name)
  THEN ObjectAssign(ovr.map[field.name], config)
  ELSE config

ApplyOverrides(field, ovr, config) ==
  IF HasOverride(ovr, field.name)
  THEN ObjectAssign(config, ovr.map[field.name])
  ELSE config

\* IsHidden without the exception made for the id field
IsHidden_NoIdException(field) == field.system

\* field.system && field.name !== 'id'
IsHidden(field) == field.system /\ field.name # NameId

\* getFormFieldConfig(field, overrides): Null or a configuration
getFormFieldConfig(field, ovr) ==
  IF IsHidden(field)
  THEN Null
  ELSE ApplyOverrides(field, ovr,
         IdConfig(field, TypeConfig(field, BaseConfig(field))))

\* getFormFields collecting the configurations in reverse order
RECURSIVE getFormFields_Reversed(_, _)
getFormFields_Reversed(fields, ovr) ==
  IF fields = <<>> THEN <<>>
  ELSE LET config == getFormFieldConfig(Head(fields), ovr)
           rest == getFormFields_Reversed(Tail(fields), ovr)
       IN  IF config = Null THEN rest ELSE rest \o <<config>>

\* schema.map(getFormFieldConfig).filter(config => config !== null)
RECURSIVE getFormFields(_, _)
getFormFields(fields, ovr) ==
  IF fields = <<>> THEN <<>>
  ELSE LET config == getFormFieldConfig(Head(fields), ovr)
           rest == getFormFields(Tail(fields), ovr)
       IN  IF config = Null THEN rest ELSE <<config>> \o rest

-----------------------------------------------------------------------------
(* validateFormData                                                        *)

\* data[field.name]
Get(d, name) == IF name \in DOMAIN d THEN d[name] ELSE Undefined

\* value === ''
IsEmptyString(value) == IsString(value) /\ value.v = <<>>

\* !data[field.name] || data[field.name] === ''
IsMissing(value) == ~Truthy(value) \/ IsEmptyString(value)

RequiredErrors(field, value) ==
  IF field.required /\ IsMissing(value)
  THEN << <<field.name, " is required">> >>
  ELSE <<>>

EmailErrors(field, value) ==
  IF field.type = "email" /\ Truthy(value) /\ ~EmailRegexTest(ToStringValue(value))
  THEN << <<field.name, " must be a valid email address">> >>
  ELSE <<>>

\* the TypeError of new URL is caught and turned into a message
UrlErrors(field, value) ==
  IF field.type = "url" /\ Truthy(value) /\ ~URLParses(ToStringValue(value))
  THEN << <<field.name, " must be a valid URL">> >>
  ELSE <<>>

NumberErrors(field, value) ==
  IF field.type = "number" /\ ~IsUndefined(value) /\ ~IsEmptyString(value)
  THEN LET num == ToNumber(value)
       IN  IF IsNaN(num)
           THEN << <<field.name, " must be a valid number">> >>
           ELSE (IF HasOption(field, "min") /\ num.v < field.options.min
                 THEN << <<field.name, " must be at least ", field.options.min>> >>
                 ELSE <<>>)
                \o
                (IF HasOption(field, "max") /\ num.v > field.options.max
                 THEN << <<field.name, " must be at most ", field.options.max>> >>
                 ELSE <<>>)
  ELSE <<>>

\* field.type === 'text' && data[field.name] && field.options?.pattern
PatternChecked(field, value) ==
  /\ field.type = "text"
  /\ Truthy(value)
  /\ HasOption(field, "pattern")
  /\ field.options.pattern # ""

\* new RegExp(field.options.pattern) is not guarded by a try block
PatternThrows(field, value) ==
  PatternChecked(field, value) /\ ~RegExpCompiles(field.options.pattern)

PatternErrors(field, value) ==
  IF PatternChecked(field, value)
     /\ ~RegExpTest(field.options.pattern, ToStringValue(value))
  THEN << <<field.name, " format is invalid">> >>
  ELSE <<>>

\* the messages one iteration of the loop pushes
FieldErrors(field, value) ==
  RequiredErrors(field, value) \o EmailErrors(field, value) \o UrlErrors(field, value)
    \o NumberErrors(field, value) \o PatternErrors(field, value)

\* the loop over the schema: an exception abandons the list built so far
RECURSIVE ValidateLoop(_, _, _)
ValidateLoop(d, fields, errs) ==
  IF fields = <<>> THEN [threw |-> FALSE, value |-> errs]
  ELSE LET field == Head(fields)
           value == Get(d, field.name)
       IN  IF PatternThrows(field, value)
           THEN [threw |-> TRUE, value |-> <<>>]
           ELSE ValidateLoop(d, Tail(fields), errs \o FieldErrors(field, value))

\* validateFormData(data, schema): [threw |-> FALSE, value |-> messages], or
\* [threw |-> TRUE, ...] when the call ends with an exception
validateFormData(d, fields) == ValidateLoop(d, fields, <<>>)

-----------------------------------------------------------------------------------------------------------------------------------------------------
(* prepareFormData                                                         *)

\* value[0]
First(value) == IF value.v = <<>> THEN Undefined ELSE value.v[1]

\* outcome of one case of the switch: the assignment made to prepared
\* (the empty function when the field is left out), or an exception
Assigned(assignment) == [threw |-> FALSE, value |-> assignment]
Thrown == [threw |-> TRUE, value |-> <<>>]

\* case 'number' without the test for the empty string
PrepareNumber_NoEmptyTest(field, value) ==
  LET numValue == ToNumber(value)
  IN  IF ~IsNaN(numValue) THEN Assigned(field.name :> numValue) ELSE Assigned(<<>>)

\* case 'number'
PrepareNumber(field, value) ==
  IF IsEmptyString(value) \/ IsNull(value) \/ IsUndefined(value)
  THEN Assigned(<<>>)
  ELSE LET numValue == ToNumber(value)
       IN  IF ~IsNaN(numValue) THEN Assigned(field.name :> numValue) ELSE Assigned(<<>>)

\* case 'json' without the catch block
PrepareJson_NoCatch(field, value) ==
  IF IsString(value)
  THEN LET parsed == JSONParse(value.v)
       IN  IF parsed.ok THEN Assigned(field.name :> parsed.value) ELSE Thrown
  ELSE Assigned(field.name :> value)

\* case 'json': try { JSON.parse(value) } catch { keep the value }
PrepareJson(field, value) ==
  IF IsString(value)
  THEN LET parsed == JSONParse(value.v)
       IN  IF parsed.ok
           THEN Assigned(field.name :> parsed.value)
           ELSE Assigned(field.name :> value)
  ELSE Assigned(field.name :> value)

\* case 'select' and case 'relation' passing the value through
PrepareSelect_PassThrough(field, value) == Assigned(field.name :> value)

\* case 'select' and case 'relation' wrapping whatever a multi-value field holds
PrepareSelect_AlwaysWraps(field, value) ==
  IF IsMultiple(field)
  THEN Assigned(field.name :> Arr(<<value>>))
  ELSE Assigned(field.name :> (IF IsArray(value) THEN First(value) ELSE value))

\* case 'select' and case 'relation'
PrepareSelect(field, value) ==
  IF IsMultiple(field)
  THEN Assigned(field.name :> (IF IsArray(value) THEN value ELSE Arr(<<value>>)))
  ELSE Assigned(field.name :> (IF IsArray(value) THEN First(value) ELSE value))

\* the switch on field.type
PrepareField(field, value) ==
  CASE field.type = "number" -> PrepareNumber(field, value)
    [] field.type = "bool" -> Assigned(field.name :> ToBooleanValue(value))
    [] field.type = "json" -> PrepareJson(field, value)
    [] field.type \in {"select", "relation"} -> PrepareSelect(field, value)
    [] OTHER -> Assigned(field.name :> value)

\* the loop over the schema
RECURSIVE PrepareLoop(_, _, _)
PrepareLoop(d, fields, prepared) ==
  IF fields = <<>> THEN [threw |-> FALSE, value |-> prepared]
  ELSE LET field == Head(fields)
           value == Get(d, field.name)
       IN  IF IsUndefined(value) \/ IsNull(value)
           THEN PrepareLoop(d, Tail(fields), prepared)
           ELSE LET step == PrepareField(field, value)
                IN  IF step.threw THEN Thrown
                    ELSE PrepareLoop(d, Tail(fields), ObjectAssign(prepared, step.value))

\* prepareFormData starting from a copy of data instead of an empty object
prepareFormData_FromData(d, fields) == PrepareLoop(d, fields, d)

\* prepareFormData(data, schema): [threw |-> FALSE, value |-> prepared], where
\* prepared is a function from the keys assigned to their values, or
\* [threw |-> TRUE, ...] when the call ends with an exception
prepareFormData(d, fields) == PrepareLoop(d, fields, <<>>)

-----------------------------------------------------------------------------
(* formatDateForInput, formatDateForDisplay                                *)

\* The platform a page runs on: legacy tells whether the engine's fallback
\* date parser accepts what the ISO format rejects (a day past the end of the
\* month, a space between date and time), offset is the local time zone's
\* distance from UTC in minutes.
Environment(legacy, offset) == [legacy |-> legacy, offset |-> offset]
UTC == Environment(TRUE, 0)

\* a Date object: an invalid date (time value NaN) or an instant, kept by its
\* UTC calendar fields
InvalidDate ==
  [valid |-> FALSE, y |-> 0, m |-> 0, d |-> 0, h |-> 0, mi |-> 0, s |-> 0, ms |-> 0]
Instant(y, m, d, h, mi, s, ms) ==
  [valid |-> TRUE, y |-> y, m |-> m, d |-> d, h |-> h, mi |-> mi, s |-> s, ms |-> ms]

IsLeap(y) == (y % 4 = 0 /\ y % 100 # 0) \/ y % 400 = 0
DaysInMonth(y, m) ==
  IF m = 2 THEN (IF IsLeap(y) THEN 29 ELSE 28)
  ELSE IF m \in {4, 6, 9, 11} THEN 30 ELSE 31

\* the day after and the day before a calendar day
NextDay(date) ==
  IF date.d < DaysInMonth(date.y, date.m) THEN [date EXCEPT !.d = @ + 1]
  ELSE IF date.m < 12 THEN [date EXCEPT !.m = @ + 1, !.d = 1]
  ELSE [date EXCEPT !.y = @ + 1, !.m = 1, !.d = 1]
PrevDay(date) ==
  IF date.d > 1 THEN [date EXCEPT !.d = @ - 1]
  ELSE IF date.m > 1
    THEN [date EXCEPT !.m = @ - 1, !.d = DaysInMonth(date.y, date.m - 1)]
  ELSE [date EXCEPT !.y = @ - 1, !.m = 12, !.d = 31]

\* the decimal number written in str[from..to], -1 when that is not all digits
Field(str, from, to) ==
  IF to <= Len(str) /\ \A i \in from..to : IsDigit(str[i])
  THEN DigitsValue(SubSeq(str, from, to))
  ELSE -1

\* an instant moved by a number of minutes less than a day
Shift(date, delta) ==
  LET minutes == 60 * date.h + date.mi + delta
      clock(day, m) == [day EXCEPT !.h = m \div 60, !.mi = m % 60]
  IN  IF minutes < 0 THEN clock(PrevDay(date), minutes + 24 * 60)
      ELSE IF minutes >= 24 * 60 THEN clock(NextDay(date), minutes - 24 * 60)
      ELSE clock(date, minutes)

\* Date.parse on a string in the date-time string format: YYYY, YYYY-MM or
\* YYYY-MM-DD (UTC midnight), or a date followed by THH:mm (local time) or by
\* THH:mm:ss.sssZ (UTC); anything else is not a date. A legacy parser also
\* takes a space for the T and carries a day past the end of the month over
\* into the next month.
DateParse(str, e) ==
  LET y == Field(str, 1, 4)
      m == IF Len(str) = 4 THEN 1 ELSE Field(str, 6, 7)
      d == IF Len(str) <= 7 THEN 1 ELSE Field(str, 9, 10)
      h == Field(str, 12, 13)
      mi == Field(str, 15, 16)
      s == Field(str, 18, 19)
      ms == Field(str, 21, 23)
      dateOk == /\ Len(str) = 4 \/ Len(str) = 7 \/ Len(str) >= 10
                /\ y >= 0
                /\ Len(str) > 4 => (str[5] = "-" /\ m \in 1..12)
                /\ Len(str) > 7 => (str[8] = "-" /\ d \in 1..31)
                /\ (d <= DaysInMonth(y, m) \/ e.legacy)
      clockOk == /\ (str[11] = "T" \/ (str[11] = " " /\ e.legacy))
                 /\ h \in 0..23 /\ str[14] = ":" /\ mi \in 0..59
      secondsOk == /\ str[17] = ":" /\ s \in 0..59 /\ str[20] = "." /\ ms >= 0
                   /\ str[24] = "Z"
      carried(date) == IF d <= DaysInMonth(y, m) THEN date
                       ELSE [date EXCEPT !.m = @ + 1, !.d = d - DaysInMonth(y, m)]
  IN  IF ~dateOk THEN InvalidDate
      ELSE IF Len(str) <= 10 THEN carried(Instant(y, m, d, 0, 0, 0, 0))
      ELSE IF Len(str) = 16 /\ clockOk
        THEN Shift(carried(Instant(y, m, d, h, mi, 0, 0)), 0 - e.offset)
      ELSE IF Len(str) = 24 /\ clockOk /\ secondsOk
        THEN carried(Instant(y, m, d, h, mi, s, ms))
      ELSE InvalidDate

\* new Date(isoDateString), isoDateString being a string
NewDate(value, e) == DateParse(value.v, e)

\* isNaN(date.getTime())
IsInvalid(date) == ~date.valid

\* a number written with at least width digits
RECURSIVE Pad(_, _)
Pad(digits, width) == IF Len(digits) >= width THEN digits ELSE Pad(<<"0">> \o digits, width)

\* what a call inside the try block gives: a string, or an exception
Returned(str) == [threw |-> FALSE, value |-> Str(str)]
Raised == [threw |-> TRUE, value |-> Undefined]

\* Date.prototype.toISOString: a RangeError on an invalid date
toISOString(date) ==
  IF IsInvalid(date) THEN Raised
  ELSE Returned(Pad(NatToString(date.y), 4) \o <<"-">> \o Pad(NatToString(date.m), 2)
                \o <<"-">> \o Pad(NatToString(date.d), 2) \o <<"T">>
                \o Pad(NatToString(date.h), 2) \o <<":">> \o Pad(NatToString(date.mi), 2)
                \o <<":">> \o Pad(NatToString(date.s), 2) \o <<".">>
                \o Pad(NatToString(date.ms), 3) \o <<"Z">>)

\* the calendar day of an instant in the local time zone
LocalDay(date, e) == Shift(date, e.offset)

\* Date.prototype.toLocaleDateString('en-US'): M/D/YYYY of the local day, and
\* the text 'Invalid Date' for an invalid date
toLocaleDateString(date, e) ==
  IF IsInvalid(date)
  THEN Returned(<<"I", "n", "v", "a", "l", "i", "d", " ", "D", "a", "t", "e">>)
  ELSE LET local == LocalDay(date, e)
       IN  Returned(NatToString(local.m) \o <<"/">> \o NatToString(local.d)
                    \o <<"/">> \o NatToString(local.y))

\* str.split(separator)[0]
RECURSIVE SplitFirst(_, _)
SplitFirst(str, separator) ==
  IF str = <<>> \/ Head(str) = separator THEN <<>>
  ELSE <<Head(str)>> \o SplitFirst(Tail(str), separator)

\* try { ... } catch { return '' }
CatchEmpty(outcome) == IF outcome.threw THEN Returned(<<>>) ELSE outcome

formatDateForInput(value, e) ==
  IF ~Truthy(value) THEN Returned(<<>>)
  ELSE CatchEmpty(
         LET date == NewDate(value, e)
             iso == toISOString(date)
         IN  IF IsInvalid(date) THEN Returned(<<>>)
             ELSE IF iso.threw THEN Raised
             ELSE Returned(SplitFirst(iso.value.v, "T")))

formatDateForDisplay_NoNaNTest(value, e) ==
  IF ~Truthy(value) THEN Returned(<<>>)
  ELSE CatchEmpty(toLocaleDateString(NewDate(value, e), e))

formatDateForDisplay(value, e) ==
  IF ~Truthy(value) THEN Returned(<<>>)
  ELSE CatchEmpty(
         LET date == NewDate(value, e)
         IN  IF IsInvalid(date) THEN Returned(<<>>)
             ELSE toLocaleDateString(date, e))

-----------------------------------------------------------------------------
(* Inputs of the model                                                     *)

\* longest schema built from SchemaFields
MaxSchemaLen == 3

NameAge == <<"a", "g", "e">>
NameEmail == <<"e", "m", "a", "i", "l">>
NameTags == <<"t", "a", "g", "s">>
NameCreated == <<"c", "r", "e", "a", "t", "e", "d">>
NameExtra == <<"e", "x", "t", "r", "a">>

Red == Str(<<"r", "e", "d">>)
Blue == Str(<<"b", "l", "u", "e">>)

\* the field types of the backend, and one the code does not know
FieldTypes ==
  {"text", "editor", "number", "bool", "email", "url", "date", "select", "file",
   "relation", "json", "autodate"}

\* an options bag in which key is unset or has one of the values
Optional(key, values) == {<<>>} \cup {key :> v : v \in values}

Bags(as, bs) == {ObjectAssign(a, b) : a \in as, b \in bs}

\* the options bags tried for each field type (the options its code reads)
OptionsFor(type) ==
  CASE type = "number" ->
         Bags(Optional("min", {0, 30}), Optional("max", {20, 120}))
    [] type \in {"text", "autodate"} ->
         Bags(Optional("pattern", {"", PatternLower, PatternUnterminated}),
              Bags(Optional("min", {0}), Optional("max", {120})))
    [] type = "select" ->
         Bags(Optional("values", {<<Red.v, Blue.v>>}), Optional("maxSelect", {0, 1, 3}))
    [] type \in {"relation", "file"} -> Optional("maxSelect", {0, 1, 3})
    [] OTHER -> {<<>>}

\* every descriptor tried on its own
AllFields ==
  UNION { { [name |-> n, type |-> ty, system |-> sys, required |-> req, options |-> o]
            : n \in {NameId, NameAge}, sys \in BOOLEAN, req \in BOOLEAN, o \in OptionsFor(ty) }
          : ty \in FieldTypes }

\* the descriptors longer schemas are built from
SchemaFields ==
  { [name |-> NameId, type |-> "text", system |-> TRUE, required |-> TRUE, options |-> <<>>],
    [name |-> NameCreated, type |-> "date", system |-> TRUE, required |-> FALSE, options |-> <<>>],
    [name |-> NameEmail, type |-> "email", system |-> FALSE, required |-> TRUE, options |-> <<>>],
    [name |-> NameAge, type |-> "number", system |-> FALSE, required |-> FALSE,
     options |-> [min |-> 0, max |-> 120]],
    [name |-> NameTags, type |-> "select", system |-> FALSE, required |-> TRUE,
     options |-> [maxSelect |-> 3]] }

\* the values tried for the one field of a schema
AllValues ==
  { Undefined, Null, Num(0), Num(25), Num(150), Bool(TRUE), Bool(FALSE), Obj,
    Str(<<>>), Str(<<" ">>), Str(<<"2", "5">>), Str(<<"1", "5", "0">>),
    Str(<<"a", "b", "c">>), Str(<<"a", "@", "b", ".", "c", "o">>),
    Str(<<"h", "t", "t", "p", ":", "/", "/", "a", ".", "b">>),
    Str(<<"{", "b", "a", "d">>), Str(<<"{", "}">>), Str(<<"n", "u", "l", "l">>),
    Arr(<<>>), Arr(<<Red>>), Arr(<<Red, Blue>>) }

\* the values tried for each field of a longer schema
SchemaValues ==
  { Undefined, Str(<<>>), Str(<<"a", "b", "c">>), Num(150) }

\* schemas: field names are unique within a schema
Schemas ==
  {<<>>} \cup { <<f>> : f \in AllFields }
    \cup UNION { { s \in [1..n -> SchemaFields] :
                     \A i \in 1..n, j \in 1..n : s[i].name = s[j].name => i = j }
                 : n \in 2..MaxSchemaLen }

Names(fields) == {fields[i].name : i \in DOMAIN fields}

\* data records for a schema: a value for each field, and one key that names
\* no field
DataFor(fields) ==
  { ObjectAssign(d, NameExtra :> Str(<<"x">>)) :
      d \in [Names(fields) -> IF Len(fields) <= 1 THEN AllValues ELSE SchemaValues] }

\* FieldOverrides arguments: absent, or a map from field names to partial
\* configurations
NoOverrides == [given |-> FALSE, map |-> <<>>]
Overrides(map) == [given |-> TRUE, map |-> map]

OverridesArgs ==
  { NoOverrides,
    Overrides(<<>>),
    Overrides(NameId :> [label |-> <<"K", "e", "y">>]),
    Overrides(ObjectAssign(NameId :> [required |-> TRUE],
                           NameAge :> [type |-> "textarea", rows |-> 10])),
    Overrides(NameAge :> [label |-> <<"Y", "e", "a", "r", "s">>, required |-> TRUE]),
    Overrides(NameAge :> [name |-> NameId]) }

-----------------------------------------------------------------------------
(* The calls                                                               *)

\* call records the one call a behaviour makes on its inputs: the function, the
\* index of the descriptor passed (getFormFieldConfig), and the outcome
NoCall == [fn |-> "none", index |-> 0, threw |-> FALSE, value |-> <<>>]

\* no date is being formatted, no form is mounted
DateIdle == isoDateString = Undefined /\ env = UTC
FormIdle ==
  /\ framework = "react"
  /\ formData = <<>>
  /\ errors = <<>>
  /\ isSubmitting = FALSE
  /\ submitted = <<>>
CrudIdle ==
  /\ collection = <<>>
  /\ options = [given |-> FALSE, map |-> <<>>]
  /\ pbCalls = <<>>
  /\ pbResponses = <<>>
\* no CollectionManager is mounted
ManagersIdle == managers = <<>> /\ manager = <<>>
ListIdle == list = <<>>

Init ==
  /\ schema \in Schemas
  /\ data \in DataFor(schema)
  /\ overrides \in OverridesArgs
  /\ call = NoCall
  /\ DateIdle
  /\ FormIdle
  /\ CrudIdle
  /\ ManagersIdle
  /\ ListIdle

\* getFormFieldConfig(schema[i], overrides)
GetFormFieldConfig(i) ==
  /\ call = NoCall
  /\ call' = [fn |-> "getFormFieldConfig", index |-> i, threw |-> FALSE,
              value |-> getFormFieldConfig(schema[i], overrides)]
  /\ UNCHANGED <<schema, data, overrides, others>>

\* getFormFields(schema, overrides)
GetFormFields ==
  /\ call = NoCall
  /\ call' = [fn |-> "getFormFields", index |-> 0, threw |-> FALSE,
              value |-> getFormFields(schema, overrides)]
  /\ UNCHANGED <<schema, data, overrides, others>>

\* validateFormData(data, schema)
ValidateFormData ==
  /\ call = NoCall
  /\ call' = [fn |-> "validateFormData", index |-> 0] @@ validateFormData(data, schema)
  /\ UNCHANGED <<schema, data, overrides, others>>

\* prepareFormData(data, schema)
PrepareFormData ==
  /\ call = NoCall
  /\ call' = [fn |-> "prepareFormData", index |-> 0] @@ prepareFormData(data, schema)
  /\ UNCHANGED <<schema, data, overrides, others>>

\* prepareFormData(prepareFormData(data, schema), schema): both outcomes
PrepareFormDataTwice ==
  /\ call = NoCall
  /\ LET first == prepareFormData(data, schema)
         second == IF first.threw THEN first ELSE prepareFormData(first.value, schema)
     IN  call' = [fn |-> "prepareFormData twice", index |-> 0,
                  threw |-> second.threw,
                  value |-> [first |-> first.value, second |-> second.value]]
  /\ UNCHANGED <<schema, data, overrides, others>>

Next ==
  \/ \E i \in DOMAIN schema : GetFormFieldConfig(i)
  \/ GetFormFields
  \/ ValidateFormData
  \/ PrepareFormData
  \/ PrepareFormDataTwice

Spec == Init /\ [][Next]_vars

-----------------------------------------------------------------------------
(* The date formatter calls                                                *)

Hyphen == <<"-">>
Years == {<<"2", "0", "2", "3">>, <<"2", "0", "2", "4">>}
Months == {<<"0", "1">>, <<"0", "2">>, <<"1", "2">>, <<"1", "3">>}
Days == {<<"0", "1">>, <<"2", "9">>, <<"3", "1">>, <<"3", "2">>}
Times == {<<>>,
          <<"T", "1", "0", ":", "3", "0", ":", "0", "0", ".", "0", "0", "0", "Z">>,
          <<"T", "2", "3", ":", "3", "0", ":", "0", "0", ".", "0", "0", "0", "Z">>,
          <<"T", "0", "0", ":", "3", "0", ":", "0", "0", ".", "0", "0", "0", "Z">>,
          <<" ", "1", "0", ":", "3", "0", ":", "0", "0", ".", "0", "0", "0", "Z">>,
          <<"T", "1", "0", ":", "3", "0">>}
InvalidDateText == <<"i", "n", "v", "a", "l", "i", "d", "-", "d", "a", "t", "e">>

\* what the formatters are given: nothing, '', text that is no date, and
\* date and date-time strings with months and days in and out of range
DateArgs ==
  {Undefined, Null, Str(<<>>), Str(InvalidDateText), Str(<<"2", "0", "2", "3">>),
   Str(<<"2", "0", "2", "3", "-", "0", "2">>), Str(<<"2", "0", "2", "3", "/", "0", "2">>)}
    \cup {Str(y \o Hyphen \o m \o Hyphen \o d \o t) :
            y \in Years, m \in Months, d \in Days, t \in Times}

\* engines with and without a legacy parser, from UTC-12 to UTC+14
Environments == {Environment(legacy, offset) : legacy \in BOOLEAN, offset \in {-720, 0, 840}}

InitDate ==
  /\ schema = <<>>
  /\ data = <<>>
  /\ overrides = NoOverrides
  /\ call = NoCall
  /\ isoDateString \in DateArgs
  /\ env \in Environments
  /\ FormIdle
  /\ CrudIdle
  /\ ManagersIdle
  /\ ListIdle

\* formatDateForInput(isoDateString)
FormatDateForInput ==
  /\ call = NoCall
  /\ call' = [fn |-> "formatDateForInput", index |-> 0]
               @@ formatDateForInput(isoDateString, env)
  /\ UNCHANGED <<schema, data, overrides, others>>

\* formatDateForDisplay(isoDateString)
FormatDateForDisplay ==
  /\ call = NoCall
  /\ call' = [fn |-> "formatDateForDisplay", index |-> 0]
               @@ formatDateForDisplay(isoDateString, env)
  /\ UNCHANGED <<schema, data, overrides, others>>

NextDate ==
  \/ FormatDateForInput
  \/ FormatDateForDisplay

SpecDate == InitDate /\ [][NextDate]_vars

-----------------------------------------------------------------------------
(* DynamicForm (React: DynamicForm.tsx, Svelte: DynamicForm.svelte)        *)

Frameworks == {"react", "svelte"}

\* value.includes(c)
Includes(str, c) == \E i \in DOMAIN str : str[i] = c

\* field.type === 'select' && field.multiple, on a form field configuration
IsMultiSelect(config) ==
  config.type = "select" /\ "multiple" \in DOMAIN config /\ config.multiple

\* initializeFormData with no initial data: the empty value of each input
EmptyValue(config) ==
  IF config.type = "checkbox" THEN Bool(FALSE)
  ELSE IF IsMultiSelect(config) THEN Arr(<<>>)
  ELSE Str(<<>>)

\* the configuration the form renders for a key of formData (the last one of
\* that name)
ConfigOf(fields, name) ==
  fields[CHOOSE i \in DOMAIN fields :
           fields[i].name = name /\ \A j \in DOMAIN fields : fields[j].name = name => j <= i]

initializeFormData(fields) ==
  [name \in {fields[i].name : i \in DOMAIN fields} |-> EmptyValue(ConfigOf(fields, name))]

\* a date value cut back to YYYY-MM-DD
CleanDate(value) ==
  IF Includes(value.v, "T") THEN Str(SplitFirst(value.v, "T"))
  ELSE IF Includes(value.v, " ") THEN Str(SplitFirst(value.v, " "))
  ELSE value

\* cleanedData: the copy of formData after the loop over the date fields
RECURSIVE CleanedData(_, _)
CleanedData(cleaned, fields) ==
  IF fields = <<>> THEN cleaned
  ELSE LET field == Head(fields)
           value == Get(cleaned, field.name)
       IN  CleanedData(
             IF field.type = "date" /\ Truthy(value) /\ IsString(value)
             THEN ObjectAssign(cleaned, field.name :> CleanDate(value))
             ELSE cleaned,
             Tail(fields))

\* validationErrors.length > 0, with the test left out
HasViolations_Never(validationErrors) == FALSE

\* validationErrors.length > 0
HasViolations(validationErrors) == Len(validationErrors) > 0

\* err instanceof Error ? err.message : 'An error occurred'
ErrorMessage == <<"An error occurred">>

\* the last handler the form ran, and whether it let an exception out
Handled(fn, threw) == [fn |-> fn, index |-> 0, threw |-> threw, value |-> <<>>]

\* what handleSubmit does to errors, isSubmitting and the submit callback, up
\* to its first await; delivered tells whether the receiver of the payload
\* returned normally
handleSubmit(fw, form, fields, delivered) ==
  LET validation == validateFormData(form.formData, fields)
      prepared == prepareFormData(CleanedData(form.formData, fields), fields)
  IN  IF validation.threw
        THEN [form EXCEPT !.errors = <<>>, !.threw = TRUE]
      ELSE IF HasViolations(validation.value)
        THEN [form EXCEPT !.errors = validation.value]
      ELSE IF prepared.threw
        THEN [form EXCEPT !.errors = <<ErrorMessage>>, !.isSubmitting = FALSE]
      ELSE IF fw = "react"
        THEN [form EXCEPT !.errors = <<>>, !.isSubmitting = TRUE,
                          !.submitted = Append(@, prepared.value)]
      ELSE [form EXCEPT !.errors = IF delivered THEN <<>> ELSE <<ErrorMessage>>,
                        !.isSubmitting = FALSE,
                        !.submitted = Append(@, prepared.value)]

\* (prev[fieldName] || []) with value added or filtered out
handleMultiSelectChange(current, value, checked) ==
  IF checked THEN Arr(Append(current.v, value))
  ELSE Arr(SelectSeq(current.v, LAMBDA v : v # value))

-----------------------------------------------------------------------------
(* The DynamicForm handlers                                                *)

MaxSubmits == 1

NameDue == <<"d", "u", "e">>
NameCode == <<"c", "o", "d", "e">>
GoodEmail == Str(<<"a", "@", "b", ".", "c", "o">>)
Text25 == Str(<<"2", "5">>)
DateTimeT == Str(<<"2", "0", "2", "3", "-", "1", "2", "-", "2", "5", "T", "1", "0", ":", "3", "0">>)
DateTimeSpace == Str(<<"2", "0", "2", "3", "-", "1", "2", "-", "2", "5", " ", "1", "0", ":", "3", "0">>)

\* the descriptors the forms are built from: a required e-mail, a bounded
\* number, a required date, a text with a pattern that does not compile, and
\* a required multiple select
FormFields ==
  { [name |-> NameEmail, type |-> "email", system |-> FALSE, required |-> TRUE, options |-> <<>>],
    [name |-> NameAge, type |-> "number", system |-> FALSE, required |-> FALSE,
     options |-> [min |-> 0, max |-> 120]],
    [name |-> NameDue, type |-> "date", system |-> FALSE, required |-> TRUE, options |-> <<>>],
    [name |-> NameCode, type |-> "text", system |-> FALSE, required |-> FALSE,
     options |-> [pattern |-> PatternUnterminated]],
    [name |-> NameTags, type |-> "select", system |-> FALSE, required |-> TRUE,
     options |-> [values |-> <<Red.v>>, maxSelect |-> 3]] }

\* schemas of one or two fields of different names
FormSchemas ==
  {<<f>> : f \in FormFields}
    \cup {pair \in FormFields \X FormFields : pair[1].name # pair[2].name}

\* what a user may enter in the input of a field
Entries(config) ==
  CASE config.type = "email" -> {Str(<<>>), GoodEmail, Text25}
    [] config.type = "number" -> {Str(<<>>), Text25, GoodEmail}
    [] config.type = "date" -> {Str(<<>>), DateTimeT, DateTimeSpace}
    [] OTHER -> {Str(<<>>), Text25}

\* the component's state as one record, and back
Form == [formData |-> formData, errors |-> errors, isSubmitting |-> isSubmitting,
         submitted |-> submitted, threw |-> FALSE]
SetForm(form) ==
  /\ formData' = form.formData
  /\ errors' = form.errors
  /\ isSubmitting' = form.isSubmitting
  /\ submitted' = form.submitted

formFields == getFormFields(schema, NoOverrides)

InitForm ==
  /\ schema \in FormSchemas
  /\ data = <<>>
  /\ overrides = NoOverrides
  /\ call = NoCall
  /\ DateIdle
  /\ framework \in Frameworks
  /\ formData = initializeFormData(formFields)
  /\ errors = <<>>
  /\ isSubmitting = FALSE
  /\ submitted = <<>>
  /\ CrudIdle
  /\ ManagersIdle
  /\ ListIdle

\* the form is submitted (the submit button is disabled while isSubmitting)
HandleSubmit ==
  /\ ~isSubmitting
  /\ Len(submitted) < MaxSubmits
  /\ \E delivered \in BOOLEAN :
       LET form == handleSubmit(framework, Form, schema, delivered)
       IN  /\ SetForm(form)
           /\ call' = Handled("handleSubmit", form.threw)
  /\ UNCHANGED <<schema, data, overrides, dateVars, crudVars, viewVars, framework>>

\* React: the promise of onSubmit settles, and handleSubmit runs to its end
SettleSubmit ==
  /\ framework = "react"
  /\ isSubmitting
  /\ \E delivered \in BOOLEAN :
       errors' = IF delivered THEN errors ELSE <<ErrorMessage>>
  /\ isSubmitting' = FALSE
  /\ call' = Handled("handleSubmit settled", FALSE)
  /\ UNCHANGED <<schema, data, overrides, dateVars, crudVars, viewVars, framework, formData, submitted>>

HandleCancel ==
  /\ call' = Handled("handleCancel", FALSE)
  /\ UNCHANGED <<schema, data, overrides, dateVars, crudVars, viewVars, formVars>>

\* an input, a select or a textarea changes (React: handleInputChange,
\* Svelte: bind:value)
HandleInputChange(name, value) ==
  /\ ~IsMultiSelect(ConfigOf(formFields, name))
  /\ value \in Entries(ConfigOf(formFields, name))
  /\ formData' = ObjectAssign(formData, name :> value)
  /\ call' = Handled("handleInputChange", FALSE)
  /\ UNCHANGED <<schema, data, overrides, dateVars, crudVars, viewVars, framework, errors, isSubmitting, submitted>>

\* a checkbox of a multiple select is toggled
HandleMultiSelectChange(name, option) ==
  /\ IsMultiSelect(ConfigOf(formFields, name))
  /\ option \in Range(ConfigOf(formFields, name).options)
  /\ formData' = ObjectAssign(formData,
        name :> handleMultiSelectChange(formData[name], Str(option),
                                        Str(option) \notin Range(formData[name].v)))
  /\ call' = Handled("handleMultiSelectChange", FALSE)
  /\ UNCHANGED <<schema, data, overrides, dateVars, crudVars, viewVars, framework, errors, isSubmitting, submitted>>

NextForm ==
  \/ HandleSubmit
  \/ SettleSubmit
  \/ HandleCancel
  \/ \E name \in DOMAIN formData, value \in {Str(<<>>), GoodEmail, Text25, DateTimeT, DateTimeSpace} :
       HandleInputChange(name, value)
  \/ \E name \in DOMAIN formData, option \in {Red.v} : HandleMultiSelectChange(name, option)

SpecForm == InitForm /\ [][NextForm]_vars

-----------------------------------------------------------------------------
(* DynamicForm mounted on a record: initializeFormData with initialData     *)

\* typeof value === 'object'
TypeofObject(value) == value.t \in {"object", "array", "null"}

Quoted(str) == <<"\"">> \o str \o <<"\"">>

\* the elements of an array, one per line, indented by two spaces
RECURSIVE IndentedLines(_)
IndentedLines(a) ==
  IF Len(a) = 1 THEN <<" ", " ">> \o Quoted(a[1].v)
  ELSE <<" ", " ">> \o Quoted(a[1].v) \o <<",", "\n">> \o IndentedLines(Tail(a))

\* JSON.stringify(value, null, 2) of null, the empty object and arrays of
\* strings
JSONStringify(value) ==
  CASE IsNull(value) -> <<"n", "u", "l", "l">>
    [] IsArray(value) /\ value.v = <<>> -> <<"[", "]">>
    [] IsArray(value) -> <<"[", "\n">> \o IndentedLines(value.v) \o <<"\n", "]">>
    [] OTHER -> <<"{", "}">>

\* the record a form is mounted on: none, or a map from names to values
NoInitialData == [given |-> FALSE, map |-> <<>>]
InitialData(map) == [given |-> TRUE, map |-> map]

\* one round of the forEach of initializeFormData; e is the platform
\* formatDateForInput runs on
InitialValue(config, initialData, e) ==
  LET value == Get(initialData.map, config.name)
  IN  IF initialData.given /\ ~IsUndefined(value)
      THEN IF config.type = "json" /\ TypeofObject(value) THEN Str(JSONStringify(value))
           ELSE IF config.type = "checkbox" THEN ToBooleanValue(value)
           ELSE IF IsMultiSelect(config)
             THEN IF IsArray(value) THEN value
                  ELSE IF Truthy(value) THEN Arr(<<value>>) ELSE Arr(<<>>)
           ELSE IF config.type = "date" /\ Truthy(value)
             THEN formatDateForInput(value, e).value
           ELSE IF Truthy(value) THEN value ELSE Str(<<>>)
      ELSE EmptyValue(config)

\* initializeFormData(fields) of a form given initialData
initializeFormDataFrom(fields, initialData, e) ==
  [name \in {fields[i].name : i \in DOMAIN fields} |->
     InitialValue(ConfigOf(fields, name), initialData, e)]

NameMeta == <<"m", "e", "t", "a">>
NameDone == <<"d", "o", "n", "e">>

\* a json, a bool, a multiple select, a date and a text field
RecordFields ==
  { [name |-> NameMeta, type |-> "json", system |-> FALSE, required |-> FALSE, options |-> <<>>],
    [name |-> NameDone, type |-> "bool", system |-> FALSE, required |-> FALSE, options |-> <<>>],
    [name |-> NameTags, type |-> "select", system |-> FALSE, required |-> FALSE,
     options |-> [maxSelect |-> 2, values |-> <<Red.v, Blue.v>>]],
    [name |-> NameDue, type |-> "date", system |-> FALSE, required |-> FALSE, options |-> <<>>],
    [name |-> NameCode, type |-> "text", system |-> FALSE, required |-> FALSE, options |-> <<>>] }

\* what a record of the backend may hold for a field
RecordValues(field) ==
  CASE field.type = "date" -> {Undefined, Str(<<>>), DateTimeSpace, Str(InvalidDateText)}
    [] field.type = "select" -> {Undefined, Str(<<>>), Red, Arr(<<>>), Arr(<<Red, Blue>>)}
    [] OTHER -> {Undefined, Null, Obj, Arr(<<>>), Arr(<<Red>>), Arr(<<Red, Blue>>),
                 Str(<<>>), Text25, Bool(FALSE), Num(0)}

\* fieldOverrides: none, or the meta field given the input type json
MetaOverrides == {NoOverrides, Overrides(NameMeta :> [type |-> "json"])}

InitMount ==
  /\ schema \in {<<f>> : f \in RecordFields}
  /\ data \in {NoInitialData}
              \cup {InitialData(schema[1].name :> v) : v \in RecordValues(schema[1])}
  /\ overrides \in MetaOverrides
  /\ call = NoCall
  /\ DateIdle
  /\ framework \in Frameworks
  /\ formData = <<>>
  /\ errors = <<>>
  /\ isSubmitting = FALSE
  /\ submitted = <<>>
  /\ CrudIdle
  /\ ManagersIdle
  /\ ListIdle

\* the form is mounted: formFields = getFormFields(schema, fieldOverrides),
\* then initializeFormData
Mount ==
  /\ call = NoCall
  /\ formData' = initializeFormDataFrom(getFormFields(schema, overrides), data, env)
  /\ call' = Handled("initializeFormData", FALSE)
  /\ UNCHANGED <<schema, data, overrides, dateVars, crudVars, viewVars, framework,
                 errors, isSubmitting, submitted>>

NextMount == Mount

SpecMount == InitMount /\ [][NextMount]_vars

-----------------------------------------------------------------------------
(* PocketCrud.getList (src/utils/crud)                                     *)

\* the optional QueryOptions argument: left out, or an object
NoOptions == [given |-> FALSE, map |-> <<>>]
Options(map) == [given |-> TRUE, map |-> map]

\* options || {}
OrEmpty(opts) == IF opts.given THEN opts.map ELSE <<>>

\* { key = fallback } = object: the fallback for a key that is absent or
\* undefined
Default(object, key, fallback) ==
  IF key \in DOMAIN object /\ ~IsUndefined(object[key]) THEN object[key] ELSE fallback

\* { ...restOptions } with the named keys left in
Rest_KeepsAll(object, keys) == object

\* { page, perPage, ...restOptions } = object: the properties not named
Rest(object, keys) == [k \in DOMAIN object \ keys |-> object[k]]

\* this.pb.collection(collection).getList(page, perPage, restOptions)
BackendCall(name, method, args) == [collection |-> name, method |-> method, args |-> args]

\* the backend call getList makes
getList(name, opts) ==
  LET object == OrEmpty(opts)
      page == Default(object, "page", Num(1))
      perPage == Default(object, "perPage", Num(30))
      restOptions == Rest(object, {"page", "perPage"})
  IN  BackendCall(name, "getList", <<page, perPage, restOptions>>)

-----------------------------------------------------------------------------
(* The getList calls                                                       *)

Users == <<"u", "s", "e", "r", "s">>
Posts == <<"p", "o", "s", "t", "s">>

\* the query options of the tests, each left out, given, or (page, perPage)
\* given as undefined
OptionsArgs ==
  {NoOptions} \cup
  { Options(ObjectAssign(page, ObjectAssign(perPage, ObjectAssign(filter, ObjectAssign(sort, expand))))) :
      page \in Optional("page", {Num(2), Undefined}),
      perPage \in Optional("perPage", {Num(50), Undefined}),
      filter \in Optional("filter", {Str(<<"n", "a", "m", "e", " ", "!", "=", " ", "\"", "\"">>)}),
      sort \in Optional("sort", {Str(<<"-", "c", "r", "e", "a", "t", "e", "d">>)}),
      expand \in Optional("expand", {Str(<<"p", "r", "o", "f", "i", "l", "e">>)}) }

\* what the backend answers: a page of results, an empty object, or a failure
ListResult ==
  [page |-> 1, perPage |-> 30, totalItems |-> 100, totalPages |-> 4,
   items |-> <<[id |-> <<"1">>]>>]
Responses ==
  { [rejected |-> FALSE, value |-> ListResult],
    [rejected |-> FALSE, value |-> <<>>],
    [rejected |-> TRUE, value |-> <<"Network error">>] }

InitCrud ==
  /\ schema = <<>>
  /\ data = <<>>
  /\ overrides = NoOverrides
  /\ call = NoCall
  /\ DateIdle
  /\ FormIdle
  /\ collection \in {Users, Posts}
  /\ options \in OptionsArgs
  /\ pbCalls = <<>>
  /\ pbResponses = <<>>
  /\ ManagersIdle
  /\ ListIdle

\* crud.getList(collection, options) runs up to its return
GetList ==
  /\ call = NoCall
  /\ pbCalls = <<>>
  /\ pbCalls' = Append(pbCalls, getList(collection, options))
  /\ UNCHANGED <<schema, data, overrides, call, dateVars, formVars, viewVars, collection, options, pbResponses>>

\* the backend settles the promise of its getList
BackendSettles(response) ==
  /\ Len(pbResponses) < Len(pbCalls)
  /\ pbResponses' = Append(pbResponses, response)
  /\ UNCHANGED <<schema, data, overrides, call, dateVars, formVars, viewVars, collection, options, pbCalls>>

\* the promise crud.getList returned settles with it
GetListSettles ==
  /\ call = NoCall
  /\ pbResponses # <<>>
  /\ call' = [fn |-> "getList", index |-> 0, threw |-> pbResponses[1].rejected,
              value |-> pbResponses[1].value]
  /\ UNCHANGED <<schema, data, overrides, dateVars, formVars, crudVars, viewVars>>

NextCrud ==
  \/ GetList
  \/ \E response \in Responses : BackendSettles(response)
  \/ GetListSettles

SpecCrud == InitCrud /\ [][NextCrud]_vars

-----------------------------------------------------------------------------
(* PocketCrud.getCollections, getAccessibleCollections (src/utils/crud)    *)

\* const knownCollections = [...]
knownCollections ==
  << <<"p", "o", "s", "t", "s">>,
     <<"u", "s", "e", "r", "s">>,
     <<"c", "o", "m", "m", "e", "n", "t", "s">>,
     <<"c", "a", "t", "e", "g", "o", "r", "i", "e", "s">>,
     <<"p", "a", "g", "e", "s">>,
     <<"m", "e", "d", "i", "a">>,
     <<"s", "e", "t", "t", "i", "n", "g", "s">> >>

\* value || fallback
Or(value, fallback) == IF Truthy(value) THEN value ELSE fallback

\* field => ({ id: field.id, ..., unique: field.unique || false, ... })
FieldEntry(field) ==
  [id |-> field.id, name |-> field.name, type |-> field.type, system |-> field.system,
   required |-> field.required, presentable |-> field.presentable,
   unique |-> Or(field.unique, Bool(FALSE)), options |-> field.options]

\* (col.schema || []).map(...)
SchemaEntries(value) ==
  LET fields == Or(value, Arr(<<>>)).v
  IN  Arr([i \in DOMAIN fields |-> FieldEntry(fields[i])])

\* the entry getCollections makes of a collection of the admin listing
AdminEntry(col) ==
  [id |-> col.id, name |-> col.name, type |-> col.type, system |-> col.system,
   schema |-> SchemaEntries(col.schema), indexes |-> Or(col.indexes, Arr(<<>>)),
   listRule |-> col.listRule, viewRule |-> col.viewRule, createRule |-> col.createRule,
   updateRule |-> col.updateRule, deleteRule |-> col.deleteRule, options |-> col.options]

\* the entry getAccessibleCollections makes of a collection it fetched
FetchedEntry(col) == [AdminEntry(col) EXCEPT !.system = Or(col.system, Bool(FALSE))]

\* the basic entry of a collection whose schema could not be fetched
BasicEntry(name) ==
  [id |-> Str(name), name |-> Str(name), type |-> Str(<<"b", "a", "s", "e">>),
   system |-> Bool(FALSE), schema |-> Arr(<<>>), indexes |-> Arr(<<>>),
   listRule |-> Null, viewRule |-> Null, createRule |-> Null, updateRule |-> Null,
   deleteRule |-> Null, options |-> Null]

\* the calls on the backend
GetFullList == BackendCall(<<>>, "getFullList", <<>>)
Probe(name) == BackendCall(name, "getList", <<Num(1), Num(1)>>)
GetOne(name) == BackendCall(name, "getOne", <<>>)

\* accessibleCollections with a basic entry pushed for a failed probe too
accessibleCollections_KeepsDenied(calls, responses) ==
  LET asked == SelectSeq([i \in DOMAIN responses |-> i],
                         LAMBDA i : calls[i].method = "getOne"
                                      \/ (calls[i].method = "getList" /\ responses[i].rejected))
  IN  [k \in DOMAIN asked |->
         IF responses[asked[k]].rejected
         THEN BasicEntry(calls[asked[k]].collection)
         ELSE FetchedEntry(responses[asked[k]].value)]

\* accessibleCollections after the calls answered so far: one push per getOne,
\* the fetched collection's entry or, from the catch, the basic one
accessibleCollections(calls, responses) ==
  LET asked == SelectSeq([i \in DOMAIN responses |-> i],
                         LAMBDA i : calls[i].method = "getOne")
  IN  [k \in DOMAIN asked |->
         IF responses[asked[k]].rejected
         THEN BasicEntry(calls[asked[k]].collection)
         ELSE FetchedEntry(responses[asked[k]].value)]

\* what an async function does next: it awaits a call or returns a value
Awaits(request) == [done |-> FALSE, request |-> request, value |-> <<>>]
Returns(value) == [done |-> TRUE, request |-> GetFullList, value |-> value]

\* the next round of the for loop after the round of name, or the return
NextRound(name, calls, responses) ==
  LET i == CHOOSE k \in DOMAIN knownCollections : knownCollections[k] = name
  IN  IF i < Len(knownCollections) THEN Awaits(Probe(knownCollections[i + 1]))
      ELSE Returns(accessibleCollections(calls, responses))

\* getCollections and the getAccessibleCollections it falls back to, from the
\* answer to their last call to their next await or their return
Resume(calls, responses) ==
  LET last == calls[Len(calls)]
      answer == responses[Len(responses)]
  IN  CASE last.method = "getFullList" ->
             IF answer.rejected THEN Awaits(Probe(knownCollections[1]))
             ELSE Returns([i \in DOMAIN answer.value.v |-> AdminEntry(answer.value.v[i])])
        [] last.method = "getList" ->
             IF answer.rejected THEN NextRound(last.collection, calls, responses)
             ELSE Awaits(GetOne(last.collection))
        [] last.method = "getOne" -> NextRound(last.collection, calls, responses)

\* a text field as the backend lists it, with and without the unique flag
BackendField(unique) ==
  [id |-> Str(<<"f", "1">>), name |-> Str(<<"t", "i", "t", "l", "e">>),
   type |-> Str(<<"t", "e", "x", "t">>), system |-> Bool(FALSE), required |-> Bool(TRUE),
   presentable |-> Bool(FALSE), unique |-> unique, options |-> Obj]

\* a collection as the backend returns it: with its schema and indexes, or
\* (a backend that names them otherwise) without schema, indexes and system
BackendCollection(name, complete) ==
  [id |-> Str(<<"c", "_">> \o name), name |-> Str(name),
   type |-> Str(<<"a", "u", "t", "h">>),
   system |-> IF complete THEN Bool(TRUE) ELSE Undefined,
   schema |-> IF complete THEN Arr(<<BackendField(Undefined), BackendField(Bool(TRUE))>>)
              ELSE Undefined,
   indexes |-> IF complete THEN Arr(<<Str(<<"i", "d", "x">>)>>) ELSE Undefined,
   listRule |-> Str(<<>>), viewRule |-> Null, createRule |-> Null, updateRule |-> Null,
   deleteRule |-> Null, options |-> Obj]

\* the promise rejects with an Error, or is fulfilled with a value
Rejected == [rejected |-> TRUE, value |-> [t |-> "error", v |-> <<"Forbidden">>]]
Fulfilled(value) == [rejected |-> FALSE, value |-> value]

\* how the backend may answer a call
Answers(request) ==
  {Rejected} \cup
  CASE request.method = "getFullList" ->
         { Fulfilled(Arr(<<>>)),
           Fulfilled(Arr(<<BackendCollection(Posts, TRUE), BackendCollection(Users, FALSE)>>)) }
    [] request.method = "getList" -> { Fulfilled(ListResult) }
    [] request.method = "getOne" ->
         { Fulfilled(BackendCollection(request.collection, complete)) : complete \in BOOLEAN }

InitCollections ==
  /\ schema = <<>>
  /\ data = <<>>
  /\ overrides = NoOverrides
  /\ call = NoCall
  /\ DateIdle
  /\ FormIdle
  /\ CrudIdle
  /\ ManagersIdle
  /\ ListIdle

\* crud.getCollections() runs up to its first await
GetCollections ==
  /\ call = NoCall
  /\ pbCalls = <<>>
  /\ pbCalls' = <<GetFullList>>
  /\ UNCHANGED <<schema, data, overrides, call, dateVars, formVars, viewVars, collection,
                 options, pbResponses>>

\* the backend answers the call awaited, and getCollections runs on to its
\* next await or to its return
BackendAnswers(answer) ==
  /\ call = NoCall
  /\ Len(pbResponses) < Len(pbCalls)
  /\ LET responses == Append(pbResponses, answer)
         next == Resume(pbCalls, responses)
     IN  /\ pbResponses' = responses
         /\ pbCalls' = IF next.done THEN pbCalls ELSE Append(pbCalls, next.request)
         /\ call' = IF next.done
                    THEN [fn |-> "getCollections", index |-> 0, threw |-> FALSE,
                          value |-> next.value]
                    ELSE call
  /\ UNCHANGED <<schema, data, overrides, dateVars, formVars, viewVars, collection, options>>

\* the answers the backend may give to the call awaited
PendingAnswers ==
  IF Len(pbResponses) < Len(pbCalls) THEN Answers(pbCalls[Len(pbCalls)]) ELSE {}

NextCollections ==
  \/ GetCollections
  \/ \E answer \in PendingAnswers : BackendAnswers(answer)

SpecCollections == InitCollections /\ [][NextCollections]_vars

-----------------------------------------------------------------------------
(* RecordList (React: RecordList.tsx, Svelte: RecordList.svelte): the      *)
(* pagination controls                                                     *)

Larger(a, b) == IF a >= b THEN a ELSE b
Smaller(a, b) == IF a <= b THEN a ELSE b

\* Array.from({ length: Math.min(5, totalPages) }, (_, i) => start + i)
\*   .filter((p) => p <= totalPages), start = Math.max(1, currentPage - 2)
paginationPages_Unfiltered(currentPage, totalPages) ==
  LET start == Larger(1, currentPage - 2)
  IN  [i \in 1..Smaller(5, totalPages) |-> start + (i - 1)]
paginationPages(currentPage, totalPages) ==
  LET start == Larger(1, currentPage - 2)
      pages == [i \in 1..Smaller(5, totalPages) |-> start + (i - 1)]
  IN  SelectSeq(pages, LAMBDA p : p <= totalPages)

\* disabled={currentPage === 1}, disabled={currentPage === totalPages}
PreviousDisabled(currentPage) == currentPage = 1
NextDisabled(currentPage, totalPages) == currentPage = totalPages

\* the controls are rendered: records.length !== 0 and totalPages > 1
PaginationShown(records, totalPages) == Len(records) # 0 /\ totalPages > 1

\* the pages a click on the controls can emit
EmittedPages(currentPage, totalPages) ==
  Range(paginationPages(currentPage, totalPages))
    \cup (IF PreviousDisabled(currentPage) THEN {} ELSE {currentPage - 1})
    \cup (IF NextDisabled(currentPage, totalPages) THEN {} ELSE {currentPage + 1})

MaxPages == 8

\* the props of a list: some records or none, any number of pages, and a
\* current page that may lie outside them
ListProps(currentPage, totalPages, some) ==
  [currentPage |-> currentPage, totalPages |-> totalPages, some |-> some]
PageChangeEvent(page) == [fn |-> "pageChange", threw |-> FALSE, value |-> page]

InitList ==
  /\ schema = <<>>
  /\ data = <<>>
  /\ overrides = NoOverrides
  /\ call = NoCall
  /\ DateIdle
  /\ FormIdle
  /\ CrudIdle
  /\ ManagersIdle
  /\ list \in {ListProps(currentPage, totalPages, some) :
                currentPage \in 0..(MaxPages + 1), totalPages \in 0..MaxPages,
                some \in BOOLEAN}

ListShowsPagination == list.some /\ list.totalPages > 1

\* a click emits pageChange and the parent passes the page back as currentPage
\* (from a current page outside the pages the clicks go on without end: they
\* are followed a little beyond the pages)
Emit(page) ==
  /\ page \in (0 - 2)..(MaxPages + 3)
  /\ call' = PageChangeEvent(page)
  /\ list' = [list EXCEPT !.currentPage = page]
  /\ UNCHANGED <<schema, data, overrides, dateVars, formVars, crudVars, managers, manager>>

ClickPrevious ==
  /\ ListShowsPagination
  /\ ~PreviousDisabled(list.currentPage)
  /\ Emit(list.currentPage - 1)

ClickNext ==
  /\ ListShowsPagination
  /\ ~NextDisabled(list.currentPage, list.totalPages)
  /\ Emit(list.currentPage + 1)

ClickNumber(i) ==
  /\ ListShowsPagination
  /\ i \in DOMAIN paginationPages(list.currentPage, list.totalPages)
  /\ Emit(paginationPages(list.currentPage, list.totalPages)[i])

NextList ==
  \/ ClickPrevious
  \/ ClickNext
  \/ \E i \in 1..5 : ClickNumber(i)

SpecList == InitList /\ [][NextList]_vars

-----------------------------------------------------------------------------
(* CollectionManager (React: CollectionManager.tsx, Svelte:                *)
(* CollectionManager.svelte)                                               *)

\* A manager is a record of the component's state (collectionName and the
\* nine state variables), the calls it has made on crud, and, for each call,
\* the frame of the async function waiting for it: which await it is, the
\* values the function's closure holds, React's cancelled flag, and how the
\* call ended once it has settled.
CrudCall(method, name, page, id) ==
  [method |-> method, collection |-> name, page |-> page, id |-> id]
Frame(kind, m) ==
  [kind |-> kind, collectionName |-> m.collectionName, currentPage |-> m.currentPage,
   cancelled |-> FALSE, settled |-> FALSE, ok |-> FALSE]

\* useState initial values / let declarations
Mounted ==
  [collectionName |-> <<>>, schema |-> <<>>, records |-> <<>>, loading |-> TRUE,
   error |-> <<>>, showForm |-> FALSE, editingRecord |-> Null, currentPage |-> 1,
   totalPages |-> 1, totalItems |-> 0, calls |-> <<>>, frames |-> <<>>]

\* a crud method is called and its promise awaited
Await(m, request, frame) ==
  [m EXCEPT !.calls = Append(@, request), !.frames = Append(@, frame)]

\* what an async function reads after an await: React's handlers read the
\* props and state of the render that created them, Svelte's read the
\* component's variables
Seen(fw, m, frame) == IF fw = "react" THEN frame ELSE m

\* a rejection: an Error with a message, or some other value
Rejection(isError, message) == [ok |-> FALSE, isError |-> isError, message |-> message]
Resolved == [ok |-> TRUE, isError |-> FALSE, message |-> <<>>]

\* err instanceof Error ? err.message : fallback
MessageOr(outcome, fallback) == IF outcome.isError THEN outcome.message ELSE fallback

\* errorMessage.includes('autocancelled') || errorMessage.includes('aborted')
IsAutoCancel(outcome) ==
  outcome.isError /\ \E part \in Range(outcome.message) : part \in {"autocancelled", "aborted"}

\* what the backend holds: the schema of a collection, and a page of its
\* records
SchemaOf(name) ==
  <<[name |-> name, type |-> "text", system |-> FALSE, required |-> TRUE, options |-> <<>>]>>
PagesOf(name) == 2
ListOf(name, page) ==
  [items |-> <<[id |-> page, collectionName |-> name]>>, page |-> page,
   totalPages |-> PagesOf(name), totalItems |-> PagesOf(name)]

\* the same with setError('') added
SetResult_ClearsError(m, result) ==
  [m EXCEPT !.records = result.items, !.currentPage = result.page,
            !.totalPages = result.totalPages, !.totalItems = result.totalItems,
            !.error = <<>>]

\* setRecords(result.items) ... setTotalItems(result.totalItems)
SetResult(m, result) ==
  [m EXCEPT !.records = result.items, !.currentPage = result.page,
            !.totalPages = result.totalPages, !.totalItems = result.totalItems]

\* crud.getList(collectionName, { page, perPage, sort: '-created' })
loadRecords(m, name, page, frame) == Await(m, CrudCall("getList", name, page, 0), frame)

\* loadCollection up to its first await
loadCollection(m) ==
  Await([m EXCEPT !.loading = TRUE, !.error = <<>>, !.showForm = FALSE,
                  !.editingRecord = Null],
        CrudCall("getCollectionSchema", m.collectionName, 0, 0),
        Frame("loadCollection schema", m))

\* the cleanup of React's effect: cancelled = true for the loads under way
Cleanup(fw, m) ==
  IF fw = "react"
  THEN [m EXCEPT !.frames =
          [n \in DOMAIN @ |->
             IF @[n].kind \in {"loadCollection schema", "loadCollection list"}
             THEN [@[n] EXCEPT !.cancelled = TRUE] ELSE @[n]]]
  ELSE m

\* the collectionName prop changes: React's effect is cleaned up and run
\* again, Svelte's reactive statement runs again
changeCollection(fw, m, name) ==
  LET changed == [Cleanup(fw, m) EXCEPT !.collectionName = name]
  IN  IF name # <<>> THEN loadCollection(changed) ELSE changed

handleCreateNew(m) == [m EXCEPT !.editingRecord = Null, !.showForm = TRUE]
handleEdit(m, record) == [m EXCEPT !.editingRecord = record, !.showForm = TRUE]
handleFormCancel(m) == [m EXCEPT !.showForm = FALSE, !.editingRecord = Null]

\* handleDelete after confirm(), up to its first await
handleDelete(m, record) ==
  Await(m, CrudCall("delete", m.collectionName, 0, record.id), Frame("delete", m))

\* handleFormSubmit up to its first await
handleFormSubmit(m) ==
  IF m.editingRecord # Null
  THEN Await(m, CrudCall("update", m.collectionName, 0, m.editingRecord.id), Frame("save", m))
  ELSE Await(m, CrudCall("create", m.collectionName, 0, 0), Frame("save", m))

handlePageChange(m, page) == loadRecords(m, m.collectionName, page, Frame("loadRecords", m))

\* the catch of loadCollection without its finally
LoadFailed_KeepsLoading(fw, m, outcome, fallback) ==
  IF fw = "react" /\ IsAutoCancel(outcome) THEN m
  ELSE [m EXCEPT !.error = MessageOr(outcome, fallback)]

\* the catch and finally of loadCollection: React leaves auto-cancellations
\* out and has its own fallback message for a failed first page
LoadFailed(fw, m, outcome, fallback) ==
  IF fw = "react" /\ IsAutoCancel(outcome) THEN [m EXCEPT !.loading = FALSE]
  ELSE [m EXCEPT !.error = MessageOr(outcome, fallback), !.loading = FALSE]

\* the request m.calls[n] settles and the function awaiting it runs on, to its
\* next await or to its end
Settle(fw, m, n, outcome) ==
  LET frame == m.frames[n]
      request == m.calls[n]
      seen == Seen(fw, m, frame)
      m0 == [m EXCEPT !.frames[n].settled = TRUE, !.frames[n].ok = outcome.ok]
      reload(state) ==
        loadRecords(state, seen.collectionName, seen.currentPage, Frame("loadRecords", state))
  IN  CASE frame.kind = "loadCollection schema" ->
             IF frame.cancelled THEN m0
             ELSE IF outcome.ok
               THEN loadRecords([m0 EXCEPT !.schema = SchemaOf(request.collection)],
                                seen.collectionName, 1, Frame("loadCollection list", m0))
             ELSE LoadFailed(fw, m0, outcome, <<"Failed to load collection">>)
        [] frame.kind = "loadCollection list" ->
             IF frame.cancelled THEN m0
             ELSE IF outcome.ok
               THEN [SetResult(m0, ListOf(request.collection, request.page)) EXCEPT !.loading = FALSE]
             ELSE LoadFailed(fw, m0, outcome,
                    IF fw = "react" THEN <<"Failed to load collection">>
                    ELSE <<"Failed to load records">>)
        [] frame.kind = "loadRecords" ->
             IF outcome.ok THEN SetResult(m0, ListOf(request.collection, request.page))
             ELSE IF fw = "react" /\ IsAutoCancel(outcome) THEN m0
             ELSE [m0 EXCEPT !.error = MessageOr(outcome, <<"Failed to load records">>)]
        [] frame.kind = "delete" ->
             IF outcome.ok THEN reload(m0)
             ELSE [m0 EXCEPT !.error = MessageOr(outcome, <<"Failed to delete record">>)]
        [] frame.kind = "save" ->
             IF outcome.ok THEN reload([m0 EXCEPT !.showForm = FALSE, !.editingRecord = Null])
             ELSE [m0 EXCEPT !.error = MessageOr(outcome, <<"Failed to save record">>)]

\* the component shows its records and controls (not the loading or the
\* error view)
Shown(m) == ~m.loading /\ m.error = <<>>

-----------------------------------------------------------------------------
(* The two CollectionManagers, driven together                             *)

MaxCalls == 3

\* how a call on crud may end: resolved, rejected with an Error, rejected
\* with the Error of an auto-cancelled request, rejected with another value
Outcomes ==
  { Resolved,
    Rejection(TRUE, <<"Network error">>),
    Rejection(TRUE, <<"The request was ", "autocancelled">>),
    Rejection(FALSE, <<>>) }

CollectionNames == {<<>>, Users, Posts}

InitManagers ==
  /\ schema = <<>>
  /\ data = <<>>
  /\ overrides = NoOverrides
  /\ call = NoCall
  /\ DateIdle
  /\ FormIdle
  /\ CrudIdle
  /\ manager = <<>>
  /\ ListIdle
  /\ managers = [fw \in Frameworks |-> Mounted]

\* every manager satisfies P
All(P(_)) == \A fw \in Frameworks : P(managers[fw])

\* a user action is taken on both managers
Both(handler(_, _)) ==
  /\ managers' = [fw \in Frameworks |-> handler(fw, managers[fw])]
  /\ UNCHANGED <<schema, data, overrides, call, dateVars, formVars, crudVars, manager, list>>

CanCall(m) == Len(m.calls) < MaxCalls

\* the page passes another collectionName
ChangeCollection(name) ==
  /\ All(CanCall)
  /\ All(LAMBDA m : m.collectionName # name)
  /\ Both(LAMBDA fw, m : changeCollection(fw, m, name))

\* the Create New button is clicked
CreateNew ==
  /\ All(LAMBDA m : Shown(m) /\ ~m.showForm)
  /\ Both(LAMBDA fw, m : handleCreateNew(m))

\* Edit is clicked on a record of the list
Edit(record) ==
  /\ All(LAMBDA m : Shown(m) /\ record \in Range(m.records))
  /\ Both(LAMBDA fw, m : handleEdit(m, record))

\* the form is cancelled
Cancel ==
  /\ All(LAMBDA m : Shown(m) /\ m.showForm)
  /\ Both(LAMBDA fw, m : handleFormCancel(m))

\* the form is submitted
Submit ==
  /\ All(CanCall)
  /\ All(LAMBDA m : Shown(m) /\ m.showForm)
  /\ Both(LAMBDA fw, m : handleFormSubmit(m))

\* Delete is clicked on a record of the list, and confirmed or not
Delete(record, confirmed) ==
  /\ All(CanCall)
  /\ All(LAMBDA m : Shown(m) /\ record \in Range(m.records))
  /\ Both(LAMBDA fw, m : IF confirmed THEN handleDelete(m, record) ELSE m)

\* a page button of the list is clicked
PageChange(page) ==
  /\ All(CanCall)
  /\ All(LAMBDA m : /\ Shown(m)
                    /\ PaginationShown(m.records, m.totalPages)
                    /\ page \in EmittedPages(m.currentPage, m.totalPages))
  /\ Both(LAMBDA fw, m : handlePageChange(m, page))

\* the n-th call, which both managers made and still wait for, settles
Respond(n, outcome) ==
  /\ All(LAMBDA m : n \in DOMAIN m.calls /\ ~m.frames[n].settled)
  /\ managers["react"].calls[n] = managers["svelte"].calls[n]
  /\ Both(LAMBDA fw, m : Settle(fw, m, n, outcome))

AllRecords == UNION {Range(managers[fw].records) : fw \in Frameworks}
AllCalls == UNION {DOMAIN managers[fw].calls : fw \in Frameworks}

NextManagers ==
  \/ \E name \in CollectionNames : ChangeCollection(name)
  \/ CreateNew
  \/ \E record \in AllRecords : Edit(record)
  \/ Cancel
  \/ Submit
  \/ \E record \in AllRecords, confirmed \in BOOLEAN : Delete(record, confirmed)
  \/ \E page \in 1..2 : PageChange(page)
  \/ \E n \in AllCalls, outcome \in Outcomes : Respond(n, outcome)

SpecManagers == InitManagers /\ [][NextManagers]_vars

-----------------------------------------------------------------------------
(* One CollectionManager with its default DynamicForm                      *)

MaxRequests == 4
CanRequest(m) == Len(m.calls) < MaxRequests

\* the default DynamicForm is on the page
FormMounted(m) == Shown(m) /\ m.showForm

InitManager ==
  /\ schema = <<>>
  /\ data = <<>>
  /\ overrides = NoOverrides
  /\ call = NoCall
  /\ DateIdle
  /\ CrudIdle
  /\ managers = <<>>
  /\ ListIdle
  /\ framework \in Frameworks
  /\ formData = <<>>
  /\ errors = <<>>
  /\ isSubmitting = FALSE
  /\ submitted = <<>>
  /\ manager = Mounted

\* the manager takes a step; the form keeps isSubmitting only while it stays
\* on the page
Becomes(m, submitting) ==
  /\ manager' = m
  /\ isSubmitting' = (submitting /\ FormMounted(m))
  /\ UNCHANGED <<schema, data, overrides, call, dateVars, crudVars, managers,
                 list, framework, formData, errors, submitted>>

\* the page passes the name of another collection
SetCollectionName(name) ==
  /\ CanRequest(manager)
  /\ manager.collectionName # name
  /\ Becomes(changeCollection(framework, manager, name), isSubmitting)

ClickCreateNew ==
  /\ Shown(manager) /\ ~manager.showForm
  /\ Becomes(handleCreateNew(manager), isSubmitting)

ClickEdit(record) ==
  /\ Shown(manager) /\ record \in Range(manager.records)
  /\ Becomes(handleEdit(manager, record), isSubmitting)

\* the form's Cancel button, disabled while isSubmitting
CancelForm ==
  /\ FormMounted(manager)
  /\ ~isSubmitting
  /\ Becomes(handleFormCancel(manager), isSubmitting)

\* a valid form is submitted: DynamicForm's handleSubmit calls
\* handleFormSubmit; React's awaits it, Svelte's dispatches and is done
SubmitForm ==
  /\ CanRequest(manager)
  /\ FormMounted(manager)
  /\ ~isSubmitting
  /\ Becomes(handleFormSubmit(manager), framework = "react")

ClickDelete(record, confirmed) ==
  /\ CanRequest(manager)
  /\ Shown(manager) /\ record \in Range(manager.records)
  /\ Becomes(IF confirmed THEN handleDelete(manager, record) ELSE manager, isSubmitting)

ClickPage(page) ==
  /\ CanRequest(manager)
  /\ Shown(manager)
  /\ PaginationShown(manager.records, manager.totalPages)
  /\ page \in EmittedPages(manager.currentPage, manager.totalPages)
  /\ Becomes(handlePageChange(manager, page), isSubmitting)

\* a call the manager waits for settles
CallSettles(n, outcome) ==
  /\ n \in DOMAIN manager.calls
  /\ ~manager.frames[n].settled
  /\ Becomes(Settle(framework, manager, n, outcome), isSubmitting)

NextManager ==
  \/ \E name \in CollectionNames \ {<<>>} : SetCollectionName(name)
  \/ ClickCreateNew
  \/ \E record \in Range(manager.records) : ClickEdit(record)
  \/ CancelForm
  \/ SubmitForm
  \/ \E record \in Range(manager.records), confirmed \in BOOLEAN : ClickDelete(record, confirmed)
  \/ \E page \in 1..2 : ClickPage(page)
  \/ \E n \in DOMAIN manager.calls, outcome \in Outcomes : CallSettles(n, outcome)

SpecManager == InitManager /\ [][NextManager]_vars

\* the backend answers every call: a pending call settles sooner or later
SomeCallSettles == \E n \in DOMAIN manager.calls, outcome \in Outcomes : CallSettles(n, outcome)
FairManager == SpecManager /\ WF_vars(SomeCallSettles)

-----------------------------------------------------------------------------
(* Properties                                                              *)

Called(fn) == call.fn = fn

\* the descriptor the last getFormFieldConfig call was given
CalledField == schema[call.index]

\* C1: getFormFieldConfig returns null if and only if the descriptor is a
\* system field not named 'id'; every other descriptor, whatever its type,
\* required flag and overrides, gets a configuration.
C1_NullIffSystemNotId ==
  Called("getFormFieldConfig") =>
    ((call.value = Null) <=> (CalledField.system /\ CalledField.name # NameId))

\* a system field other than id was derived, and a system id field was not dropped
C1_Witness ==
  /\ Called("getFormFieldConfig")
  /\ CalledField.system
  /\ \/ CalledField.name # NameId /\ call.value = Null
     \/ CalledField.name = NameId /\ call.value # Null /\ HasOverride(overrides, NameId)

\* indices of the descriptors whose derivation is not null
Derived == {i \in DOMAIN schema : getFormFieldConfig(schema[i], overrides) # Null}

\* the k-th smallest index of Derived
KthDerived(k) == CHOOSE i \in Derived : Cardinality({j \in Derived : j < i}) = k - 1

\* C2: getFormFields returns the non-null derivations in schema order: as many
\* entries as descriptors with a non-null derivation, never more than the
\* schema has, the k-th entry being the derivation of the k-th such descriptor.
C2_FormFieldsAreDerivationsInOrder ==
  Called("getFormFields") =>
    /\ Len(call.value) = Cardinality(Derived)
    /\ Len(call.value) <= Len(schema)
    /\ \A k \in DOMAIN call.value :
         call.value[k] = getFormFieldConfig(schema[KthDerived(k)], overrides)

\* a schema of several fields from which one was dropped and two were kept
C2_Witness ==
  /\ Called("getFormFields")
  /\ Len(call.value) >= 2
  /\ Len(call.value) < Len(schema)

\* the messages of a validateFormData call that returned
Messages == Range(call.value)

\* undefined, null or the empty string
IsAbsent(value) == IsUndefined(value) \/ IsNull(value) \/ IsEmptyString(value)

\* C3: validateFormData emits '<name> is required' for a required field
\* exactly when data[name] is undefined, null or the empty string; 0 and
\* false count as present.
C3_RequiredIffAbsent ==
  (Called("validateFormData") /\ ~call.threw) =>
    \A i \in DOMAIN schema :
      schema[i].required =>
        ((<<schema[i].name, " is required">> \in Messages)
           <=> IsAbsent(Get(data, schema[i].name)))

\* the messages of the rules a value violates: the required rule is violated
\* by an absent value (undefined, null, ''); the e-mail, URL and pattern rules
\* apply to a truthy value, the number rules to a value that is neither
\* undefined nor ''
RuleMessages(field, value) ==
  LET name == field.name
      text == ToStringValue(value)
      num == ToNumber(value)
      numeric == field.type = "number" /\ ~IsUndefined(value) /\ ~IsEmptyString(value)
      When(violated, message) == IF violated THEN <<message>> ELSE <<>>
  IN  When(field.required /\ IsAbsent(value), <<name, " is required">>)
      \o When(field.type = "email" /\ Truthy(value) /\ ~EmailRegexTest(text),
              <<name, " must be a valid email address">>)
      \o When(field.type = "url" /\ Truthy(value) /\ ~URLParses(text),
              <<name, " must be a valid URL">>)
      \o When(numeric /\ IsNaN(num), <<name, " must be a valid number">>)
      \o When(/\ numeric /\ ~IsNaN(num)
              /\ HasOption(field, "min") /\ num.v < field.options.min,
              <<name, " must be at least ", field.options.min>>)
      \o When(/\ numeric /\ ~IsNaN(num)
              /\ HasOption(field, "max") /\ num.v > field.options.max,
              <<name, " must be at most ", field.options.max>>)
      \o When(/\ field.type = "text" /\ Truthy(value)
              /\ HasOption(field, "pattern") /\ field.options.pattern # ""
              /\ ~RegExpTest(field.options.pattern, text),
              <<name, " format is invalid">>)

\* the messages of all violated rules, in schema order
RECURSIVE AllRuleMessages(_)
AllRuleMessages(fields) ==
  IF fields = <<>> THEN <<>>
  ELSE RuleMessages(Head(fields), Get(data, Head(fields).name))
         \o AllRuleMessages(Tail(fields))

\* C4: validateFormData returns one message per violated rule (required,
\* email, URL, number validity, minimum, maximum, pattern), in schema order,
\* and nothing else; the list is empty exactly when no rule is violated.
C4_OneMessagePerViolatedRule ==
  (Called("validateFormData") /\ ~call.threw) => call.value = AllRuleMessages(schema)

\* the prepared object of a prepareFormData call that returned
Prepared == call.value

Emitted(name) == name \in DOMAIN Prepared

S25 == Str(<<"2", "5">>)
SAbc == Str(<<"a", "b", "c">>)
SBadJson == Str(<<"{", "b", "a", "d">>)

\* C5: for a number field, prepareFormData leaves the field out when the raw
\* value is the empty string or does not parse to a number, and otherwise
\* emits Number(value); the emitted value is a number, never null or NaN,
\* whether or not the field is required ('25' gives 25, 'abc' gives no key).
C5_NumberOmittedOrParsed ==
  Called("prepareFormData") =>
    /\ ~call.threw
    /\ \A i \in DOMAIN schema :
         schema[i].type = "number" =>
           LET name == schema[i].name
               value == Get(data, name)
           IN  /\ IF IsAbsent(value) \/ IsNaN(ToNumber(value))
                  THEN ~Emitted(name)
                  ELSE Emitted(name) /\ Prepared[name] = ToNumber(value)
               /\ Emitted(name) => Prepared[name].t = "number"
               /\ value = S25 => Emitted(name) /\ Prepared[name] = Num(25)
               /\ value = SAbc => ~Emitted(name)

\* a required number field holding '' was left out of the prepared object
C5_Witness ==
  /\ Called("prepareFormData")
  /\ \E i \in DOMAIN schema :
       /\ schema[i].type = "number" /\ schema[i].required
       /\ IsEmptyString(Get(data, schema[i].name))
       /\ ~Emitted(schema[i].name)

\* C6: for a select or relation field with a present value, prepareFormData
\* emits an array when options.maxSelect > 1 (an array is kept, a scalar is
\* wrapped into a one-element array) and otherwise a scalar (a scalar is kept,
\* an array is replaced by its first element, undefined for an empty array).
C6_SelectArrayOrScalar ==
  Called("prepareFormData") =>
    \A i \in DOMAIN schema :
      LET name == schema[i].name
          value == Get(data, name)
          multi == HasOption(schema[i], "maxSelect") /\ schema[i].options.maxSelect > 1
      IN  (schema[i].type \in {"select", "relation"} /\ ~IsUndefined(value) /\ ~IsNull(value)) =>
            /\ Emitted(name)
            /\ multi => /\ IsArray(Prepared[name])
                        /\ IsArray(value) => Prepared[name] = value
                        /\ ~IsArray(value) => Prepared[name] = Arr(<<value>>)
            /\ ~multi => /\ ~IsArray(Prepared[name])
                         /\ ~IsArray(value) => Prepared[name] = value
                         /\ (IsArray(value) /\ value.v # <<>>) => Prepared[name] = value.v[1]
                         /\ (IsArray(value) /\ value.v = <<>>) => IsUndefined(Prepared[name])

\* a scalar was wrapped for a multi-value field, or an array unwrapped for a
\* single-value field
C6_Witness ==
  /\ Called("prepareFormData")
  /\ \E i \in DOMAIN schema :
       /\ schema[i].type \in {"select", "relation"}
       /\ \/ /\ IsMultiple(schema[i])
             /\ IsString(Get(data, schema[i].name))
             /\ Prepared[schema[i].name] = Arr(<<Get(data, schema[i].name)>>)
          \/ /\ ~IsMultiple(schema[i])
             /\ Get(data, schema[i].name) = Arr(<<Red, Blue>>)
             /\ Prepared[schema[i].name] = Red

\* C7: for a json field prepareFormData never throws: a string that parses as
\* JSON is replaced by the parsed value, a string that does not parse and a
\* non-string value are emitted unchanged ('{bad' stays '{bad', '25' gives 25).
C7_JsonParsedOrKept ==
  Called("prepareFormData") =>
    /\ ~call.threw
    /\ \A i \in DOMAIN schema :
         LET name == schema[i].name
             value == Get(data, name)
         IN  (schema[i].type = "json" /\ ~IsUndefined(value) /\ ~IsNull(value)) =>
               /\ Emitted(name)
               /\ (IsString(value) /\ JSONParse(value.v).ok) =>
                    Prepared[name] = JSONParse(value.v).value
               /\ (IsString(value) /\ ~JSONParse(value.v).ok) => Prepared[name] = value
               /\ ~IsString(value) => Prepared[name] = value
               /\ value = SBadJson => Prepared[name] = SBadJson
               /\ value = S25 => Prepared[name] = Num(25)

\* a json field holding a string that is not JSON was emitted unchanged
C7_Witness ==
  /\ Called("prepareFormData")
  /\ ~call.threw
  /\ \E i \in DOMAIN schema :
       /\ schema[i].type = "json"
       /\ Get(data, schema[i].name) = SBadJson
       /\ Prepared[schema[i].name] = SBadJson

\* C8: every key of the prepared object is the name of a schema field whose
\* raw value is neither undefined nor null; a key of data that names no
\* schema field never appears.
C8_KeysAreSchemaFieldsWithValues ==
  (Called("prepareFormData") /\ ~call.threw) =>
    /\ \A key \in DOMAIN Prepared :
         /\ key \in Names(schema)
         /\ ~IsUndefined(Get(data, key))
         /\ ~IsNull(Get(data, key))
    /\ (NameExtra \in DOMAIN data /\ NameExtra \notin Names(schema)) => ~Emitted(NameExtra)

\* of several fields one without a value was skipped and another was emitted,
\* while data held a key naming no field
C8_Witness ==
  /\ Called("prepareFormData")
  /\ NameExtra \in DOMAIN data
  /\ \E i \in DOMAIN schema, j \in DOMAIN schema :
       /\ IsUndefined(Get(data, schema[i].name)) /\ ~Emitted(schema[i].name)
       /\ Emitted(schema[j].name)

\* C9: validateFormData is total: for every data record and schema, including
\* text fields whose options.pattern is any string, it returns a list of
\* messages and never raises an exception.
C9_ValidateNeverThrows == Called("validateFormData") => ~call.threw

\* C10 as claimed: for a descriptor named 'id', whatever its system, required
\* and type values and whatever the overrides, the configuration has
\* required = false and label = 'ID'.
C10_IdAlwaysNotRequiredLabelID ==
  (Called("getFormFieldConfig") /\ CalledField.name = NameId) =>
    call.value.required = FALSE /\ call.value.label = <<"I", "D">>

\* the keys that overrides set for the descriptor of the call
OverriddenKeys ==
  IF HasOverride(overrides, CalledField.name)
  THEN DOMAIN overrides.map[CalledField.name]
  ELSE {}

\* C10 as amended: for a descriptor named 'id', whatever its system, required
\* and type values, the configuration has required = false unless
\* overrides.id sets required, and label = 'ID' unless overrides.id sets
\* label; a key that overrides.id sets has the override's value.
C10_IdNotRequiredLabelIDUnlessOverridden ==
  (Called("getFormFieldConfig") /\ CalledField.name = NameId) =>
    /\ call.value # Null
    /\ "required" \notin OverriddenKeys => call.value.required = FALSE
    /\ "label" \notin OverriddenKeys => call.value.label = <<"I", "D">>
    /\ \A key \in OverriddenKeys : call.value[key] = overrides.map[NameId][key]

\* a required system id field, with an override of its label only, was derived
C10_Witness ==
  /\ Called("getFormFieldConfig")
  /\ CalledField.name = NameId /\ CalledField.system /\ CalledField.required
  /\ OverriddenKeys = {"label"}
  /\ call.value.required = FALSE

\* the configuration derived for the descriptor of the call without overrides
PlainConfig == getFormFieldConfig(CalledField, NoOverrides)

\* C11: overrides are shallow-merged last: every key set in
\* overrides[field.name] has the override's value in the configuration, every
\* other key has the value it has without overrides, and entries under other
\* field names change nothing.
C11_OverridesMergedLast ==
  (Called("getFormFieldConfig") /\ call.value # Null) =>
    /\ DOMAIN call.value = DOMAIN PlainConfig \cup OverriddenKeys
    /\ \A key \in OverriddenKeys :
         call.value[key] = overrides.map[CalledField.name][key]
    /\ \A key \in DOMAIN PlainConfig \ OverriddenKeys :
         call.value[key] = PlainConfig[key]
    /\ ~HasOverride(overrides, CalledField.name) => call.value = PlainConfig

\* a field was derived under a map holding an entry for it, which replaced one
\* key and added another, and an entry for another field
C11_Witness ==
  /\ Called("getFormFieldConfig")
  /\ CalledField.name = NameAge /\ CalledField.type = "number"
  /\ OverriddenKeys = {"type", "rows"}
  /\ NameId \in DOMAIN overrides.map
  /\ call.value.type = "textarea" /\ call.value.rows = 10
  /\ call.value.label = <<"A", "g", "e">>

\* names of the descriptors that are not system fields or are named 'id'
RECURSIVE EditableNames(_)
EditableNames(fields) ==
  IF fields = <<>> THEN <<>>
  ELSE (IF ~Head(fields).system \/ Head(fields).name = NameId
        THEN <<Head(fields).name>> ELSE <<>>) \o EditableNames(Tail(fields))

\* names of the configurations of a getFormFields call
ConfigNames == [k \in DOMAIN call.value |-> call.value[k].name]

\* no entry of overrides that applies to a schema field sets the key name
NoNameOverride ==
  \A i \in DOMAIN schema :
    HasOverride(overrides, schema[i].name) =>
      "name" \notin DOMAIN overrides.map[schema[i].name]

\* C12 as claimed: for every schema with unique field names and every
\* overrides map, the names of the configurations of getFormFields are the
\* names of the editable descriptors, in order, so no two share a name.
C12_OneConfigPerEditableField ==
  Called("getFormFields") =>
    /\ ConfigNames = EditableNames(schema)
    /\ \A k \in DOMAIN call.value, l \in DOMAIN call.value :
         call.value[k].name = call.value[l].name => k = l

\* C12 as amended: the same, for every overrides map in which no entry for a
\* schema field sets the key name.
C12_OneConfigPerEditableFieldUnlessRenamed ==
  (Called("getFormFields") /\ NoNameOverride) =>
    /\ ConfigNames = EditableNames(schema)
    /\ \A k \in DOMAIN call.value, l \in DOMAIN call.value :
         call.value[k].name = call.value[l].name => k = l

\* a schema with a dropped system field and two editable fields, one of them
\* with an override, gave two configurations
C12_Witness ==
  /\ Called("getFormFields")
  /\ NoNameOverride
  /\ Len(schema) = 3 /\ Len(call.value) = 2
  /\ \E i \in DOMAIN schema : HasOverride(overrides, schema[i].name)

\* the input kind the derivation gives each descriptor type
UITypes ==
  [email |-> "email", url |-> "url", number |-> "number", date |-> "date",
   bool |-> "checkbox", select |-> "select", relation |-> "select", file |-> "file",
   json |-> "textarea", editor |-> "textarea", text |-> "text"]

\* C13: with no overrides the input kind depends on the descriptor type alone
\* (email, url, number, date, checkbox for bool, select for select and
\* relation, file, textarea with 4 rows for json and 8 rows for editor, text
\* for text); a descriptor of any other type gets the configuration of the
\* same descriptor with type text.
C13_UITypeByDescriptorType ==
  (Called("getFormFieldConfig") /\ ~HasOverride(overrides, CalledField.name)
     /\ call.value # Null) =>
    LET type == CalledField.type
    IN  /\ type \in DOMAIN UITypes => call.value.type = UITypes[type]
        /\ type = "json" => call.value.rows = 4
        /\ type = "editor" => call.value.rows = 8
        /\ type \notin {"json", "editor"} => "rows" \notin DOMAIN call.value
        /\ type \notin DOMAIN UITypes =>
             call.value = getFormFieldConfig([CalledField EXCEPT !.type = "text"], NoOverrides)

\* a descriptor of an unrecognised type with a pattern and bounds was derived
C13_Witness ==
  /\ Called("getFormFieldConfig")
  /\ ~HasOverride(overrides, CalledField.name)
  /\ CalledField.type \notin DOMAIN UITypes
  /\ call.value # Null
  /\ call.value.type = "text"
  /\ {"pattern", "min", "max"} \subseteq DOMAIN call.value

\* label, required and the placeholder, given the types with a placeholder of
\* their own
LabelRequiredPlaceholder(own) ==
  (Called("getFormFieldConfig") /\ ~HasOverride(overrides, CalledField.name)
     /\ call.value # Null /\ CalledField.name # NameId) =>
    LET name == CalledField.name
        type == CalledField.type
    IN  /\ Len(call.value.label) = Len(name)
        /\ \A i \in DOMAIN name :
             call.value.label[i] = IF i = 1 THEN ToUpperCase(name[1]) ELSE name[i]
        /\ name = NameAge => call.value.label = <<"A", "g", "e">>
        /\ call.value.required = CalledField.required
        /\ call.value.placeholder =
             IF type \in DOMAIN own THEN <<own[type]>> ELSE <<"Enter ", name>>

\* C14 as claimed: with no overrides and a field not named 'id', label is the
\* name with its first character upper-cased, required is field.required and
\* placeholder is 'Enter <name>', except 'Enter email address' for email,
\* 'Enter URL' for url and 'Enter JSON data' for json; no other type changes
\* the placeholder.
C14_LabelRequiredPlaceholder ==
  LabelRequiredPlaceholder(
    [email |-> "Enter email address", url |-> "Enter URL", json |-> "Enter JSON data"])

\* C14 as amended: the same, with 'Enter number' as the placeholder of a
\* number field as well.
C14_LabelRequiredPlaceholderWithNumber ==
  LabelRequiredPlaceholder(
    [email |-> "Enter email address", url |-> "Enter URL", json |-> "Enter JSON data",
     number |-> "Enter number"])

\* a required number field not named id was derived without overrides
C14_Witness ==
  /\ Called("getFormFieldConfig")
  /\ ~HasOverride(overrides, CalledField.name)
  /\ CalledField.name = NameAge /\ CalledField.type = "number" /\ CalledField.required
  /\ call.value.placeholder = <<"Enter number">>

\* C15: for a number field whose value is undefined, null or the empty string,
\* validateFormData emits no number message: the only message it may emit for
\* the field is '<name> is required'.
C15_NoNumberMessageWhenAbsent ==
  (Called("validateFormData") /\ ~call.threw) =>
    \A i \in DOMAIN schema :
      (schema[i].type = "number" /\ IsAbsent(Get(data, schema[i].name))) =>
        \A message \in Messages :
          message[1] = schema[i].name => message[2] = " is required"

\* a schema of number, bool and select fields with a data record whose values
\* are strings, numbers, booleans or flat lists of strings
IdempotenceInputs ==
  /\ \A i \in DOMAIN schema : schema[i].type \in {"number", "bool", "select"}
  /\ \A key \in DOMAIN data :
       \/ data[key].t \in {"undefined", "string", "number", "boolean"}
       \/ IsArray(data[key]) /\ \A k \in DOMAIN data[key].v : IsString(data[key].v[k])

\* the object without the keys that hold undefined
Defined(object) ==
  [key \in {k \in DOMAIN object : ~IsUndefined(object[k])} |-> object[key]]

\* C16 as claimed: on number, bool and select fields, for data whose values
\* are strings, numbers, booleans or flat lists of strings,
\* prepare(prepare(data, schema), schema) equals prepare(data, schema).
C16_PrepareIdempotent ==
  (Called("prepareFormData twice") /\ IdempotenceInputs) =>
    /\ ~call.threw
    /\ call.value.second = call.value.first

\* C16 as amended: under the same conditions the second pass gives the result
\* of the first without the keys that hold undefined (the key of a
\* single-value select field given an empty list); when data holds no empty
\* list the two results are equal.
C16_PrepareIdempotentOnDefinedKeys ==
  (Called("prepareFormData twice") /\ IdempotenceInputs) =>
    /\ ~call.threw
    /\ call.value.second = Defined(call.value.first)
    /\ (\A key \in DOMAIN data : data[key] # Arr(<<>>)) =>
         call.value.second = call.value.first

\* a number field holding a numeric string, or a multi-value select holding a
\* scalar, was prepared twice with a non-empty result
C16_Witness ==
  /\ Called("prepareFormData twice")
  /\ IdempotenceInputs
  /\ \E i \in DOMAIN schema :
       LET name == schema[i].name
       IN  /\ name \in DOMAIN call.value.second
           /\ \/ schema[i].type = "number" /\ data[name] = S25
                   /\ call.value.second[name] = Num(25)
              \/ schema[i].type = "select" /\ IsMultiple(schema[i]) /\ data[name] = SAbc
                   /\ call.value.second[name] = Arr(<<SAbc>>)

\* whether the argument of the last date formatter call parses as a date
ParsesAsDate == IsString(isoDateString) /\ DateParse(isoDateString.v, env).valid

\* C17: formatDateForInput and formatDateForDisplay never throw; they return
\* '' whenever the argument is empty ('', null, undefined) or does not parse
\* as a date, and return a non-empty string only for an argument that parses
\* as a valid date.
C17_DateFormattersEmptyUnlessValid ==
  (Called("formatDateForInput") \/ Called("formatDateForDisplay")) =>
    /\ ~call.threw
    /\ IsString(call.value)
    /\ (~Truthy(isoDateString) \/ ~ParsesAsDate) => call.value.v = <<>>
    /\ call.value.v # <<>> => Truthy(isoDateString) /\ ParsesAsDate

C17_Witness ==
  /\ Called("formatDateForDisplay")
  /\ isoDateString = Str(InvalidDateText)
  /\ call.value = Str(<<>>)

\* C18: on every submit of DynamicForm, in React and in Svelte, the submit
\* callback or event fires only if validateFormData(formData, schema) returned
\* an empty list for the form data of that moment, and its payload is the
\* output of prepareFormData (on the form data with its date values cut back
\* to the day); when validation returns violations, errors becomes that list,
\* nothing is submitted and formData stays as it is.
C18_SubmitGuardedByValidation ==
  [][call'.fn = "handleSubmit" =>
       LET validation == validateFormData(formData, schema)
       IN  /\ submitted' # submitted =>
                /\ ~validation.threw
                /\ validation.value = <<>>
                /\ submitted' = Append(submitted,
                     prepareFormData(CleanedData(formData, schema), schema).value)
           /\ (~validation.threw /\ validation.value # <<>>) =>
                /\ errors' = validation.value
                /\ submitted' = submitted
                /\ formData' = formData]_vars

\* a form with a date-time entry passed validation and was submitted
C18_Witness ==
  /\ Called("handleSubmit")
  /\ submitted # <<>>
  /\ NameDue \in DOMAIN formData
  /\ formData[NameDue] = DateTimeT
  /\ submitted[1][NameDue] = Str(SubSeq(DateTimeT.v, 1, 10))

\* the options getList was given that are neither page nor perPage
OtherOptions == DOMAIN OrEmpty(options) \ {"page", "perPage"}

\* the page or perPage getList was given, Undefined when it was given none
Supplied(key) == IF key \in DOMAIN OrEmpty(options) THEN options.map[key] ELSE Undefined

\* C19: PocketCrud.getList issues exactly one backend getList call on the
\* named collection with page (1 when none is supplied), perPage (30 when
\* none is supplied) and an options object that holds every other supplied
\* option and never page or perPage; it resolves to the backend's result
\* unchanged.
C19_GetListOneCallDefaultsAndRest ==
  /\ Len(pbCalls) <= 1
  /\ pbCalls # <<>> =>
       LET made == pbCalls[1]
           rest == made.args[3]
       IN  /\ made.collection = collection
           /\ made.method = "getList"
           /\ made.args[1] = IF IsUndefined(Supplied("page")) THEN Num(1) ELSE Supplied("page")
           /\ made.args[2] = IF IsUndefined(Supplied("perPage")) THEN Num(30) ELSE Supplied("perPage")
           /\ DOMAIN rest = OtherOptions
           /\ \A key \in OtherOptions : rest[key] = options.map[key]
  /\ Called("getList") =>
       /\ Len(pbCalls) = 1
       /\ call.threw = pbResponses[1].rejected
       /\ call.value = pbResponses[1].value

\* getList with page, perPage and a filter resolved to the backend's page
C19_Witness ==
  /\ Called("getList")
  /\ ~call.threw
  /\ call.value = ListResult
  /\ options.given
  /\ {"page", "perPage", "filter"} \subseteq DOMAIN options.map
  /\ pbCalls[1].args[1] = Num(2)
  /\ DOMAIN pbCalls[1].args[3] = DOMAIN options.map \ {"page", "perPage"}

\* what a manager lets the page and the backend see
Observed(m) ==
  [calls |-> m.calls, loading |-> m.loading, error |-> m.error, showForm |-> m.showForm,
   editingRecord |-> m.editingRecord, records |-> m.records,
   currentPage |-> m.currentPage, totalPages |-> m.totalPages,
   totalItems |-> m.totalItems]

\* C20: the React and the Svelte CollectionManager are behaviourally
\* identical: driven by the same user actions and the same backend responses
\* in the same arrival order, they issue the same backend calls and pass
\* through the same values of loading, error, showForm, editingRecord,
\* records, currentPage, totalPages and totalItems.
C20_ManagersIdentical == Observed(managers["react"]) = Observed(managers["svelte"])


-----------------------------------------------------------------------------
(* One CollectionManager: what it shows                                    *)

GetLists(m) == {n \in DOMAIN m.calls : m.calls[n].method = "getList"}
Latest(m) == CHOOSE n \in GetLists(m) : \A k \in GetLists(m) : k <= n
AllArrived(m) == \A n \in DOMAIN m.frames : m.frames[n].settled /\ m.frames[n].ok
SameCollection(m) == \A n \in DOMAIN m.calls : m.calls[n].collection = m.collectionName

\* C21: once every response has arrived, and every request was made for the
\* collection shown, records and currentPage are those of the page load
\* requested last, in whatever order the responses came
C21_ShowsLatestPage ==
  (AllArrived(manager) /\ SameCollection(manager) /\ GetLists(manager) # {})
    => LET latest == manager.calls[Latest(manager)]
           result == ListOf(latest.collection, latest.page)
       IN  /\ manager.records = result.items
           /\ manager.currentPage = result.page

\* what C22 says a response for the previous collection leaves alone
Loaded(m) ==
  <<m.schema, m.records, m.currentPage, m.totalPages, m.totalItems, m.loading, m.error>>

\* the n-th call settles now
Settling(n) == manager.frames[n].settled # manager'.frames[n].settled

\* C22: in React, a response to a request issued for another collection than
\* the present one changes none of schema, records, currentPage, totalPages,
\* totalItems, loading, error
C22_StaleResponseIgnored ==
  [][\A n \in DOMAIN manager.calls :
       (/\ framework = "react"
        /\ Settling(n)
        /\ manager.calls[n].collection # manager.collectionName)
         => Loaded(manager') = Loaded(manager)]_vars


\* C23: when validateFormData(data, schema) returns no message,
\* prepareFormData(data, schema) holds, for every required field, a key
\* whose value is neither undefined, null nor the empty string
C23_ValidationGuardsPreparation ==
  (/\ Called("prepareFormData")
   /\ ~validateFormData(data, schema).threw
   /\ validateFormData(data, schema).value = <<>>) =>
    /\ ~call.threw
    /\ \A i \in DOMAIN schema :
         schema[i].required =>
           /\ schema[i].name \in DOMAIN call.value
           /\ ~IsAbsent(call.value[schema[i].name])


\* the record gives a valid, non-empty value to the field the form marks
\* required, and a valid value or none to a field it leaves optional
GivenAsAsked(field, value) ==
  /\ ~PatternThrows(field, value)
  /\ EmailErrors(field, value) \o UrlErrors(field, value)
       \o NumberErrors(field, value) \o PatternErrors(field, value) = <<>>
  /\ getFormFieldConfig(field, NoOverrides).required => ~IsMissing(value)

\* C24: a record that gives a valid non-empty value to every field the form
\* marks required, and no value to the id field and to the system fields the
\* form leaves out, passes validateFormData with no message
C24_ValidatorAsksNoMoreThanForm ==
  (/\ Called("validateFormData")
   /\ \A i \in DOMAIN schema :
        IF schema[i].name = NameId \/ IsHidden(schema[i])
        THEN IsUndefined(Get(data, schema[i].name))
        ELSE GivenAsAsked(schema[i], Get(data, schema[i].name))) =>
    /\ ~call.threw
    /\ call.value = <<>>


\* the create and update requests that have not settled
SavesInFlight(m) ==
  {n \in DOMAIN m.frames : m.frames[n].kind = "save" /\ ~m.frames[n].settled}

\* C25: at most one create/update request is in flight, and while one is,
\* the form on the page has isSubmitting true (its submit control disabled)
C25_OneSaveInFlight ==
  /\ Cardinality(SavesInFlight(manager)) <= 1
  /\ (SavesInFlight(manager) # {} /\ FormMounted(manager)) => isSubmitting


\* C26: when the collection name ends up non-empty and every call settles,
\* loading ends up false, whether the calls succeeded or failed
C26_LoadingEnds ==
  <>[](manager.collectionName # <<>>) => <>[](~manager.loading)

\* a first load of a collection failed, and loading is false
C26_Witness ==
  /\ manager.collectionName # <<>>
  /\ ~manager.loading
  /\ \E n \in DOMAIN manager.frames :
       /\ manager.frames[n].kind \in {"loadCollection schema", "loadCollection list"}
       /\ manager.frames[n].settled /\ ~manager.frames[n].ok /\ ~manager.frames[n].cancelled
  /\ manager.error # <<>>


\* what the component renders: if (loading) ...; if (error) ...; else the
\* records and controls
View(m) ==
  IF m.loading THEN "loading" ELSE IF m.error # <<>> THEN "error" ELSE "records"

\* this step starts loadCollection
LoadCollectionStarts ==
  /\ Len(manager'.calls) = Len(manager.calls) + 1
  /\ manager'.frames[Len(manager'.calls)].kind = "loadCollection schema"

\* error is cleared by loadCollection alone
ErrorSticky ==
  [][(manager.error # <<>> /\ manager'.error = <<>>) => LoadCollectionStarts]_vars

\* a failed save changes none of showForm, editingRecord, records and makes
\* no call
FailedSaveKeepsForm ==
  [][\A n \in DOMAIN manager.calls :
       (/\ Settling(n)
        /\ manager.frames[n].kind = "save"
        /\ ~manager'.frames[n].ok)
         => /\ manager'.showForm = manager.showForm
            /\ manager'.editingRecord = manager.editingRecord
            /\ manager'.records = manager.records
            /\ manager'.calls = manager.calls
            /\ manager'.error # <<>>]_vars

C28_JsonObjectShownAsText ==
  (Called("initializeFormData") /\ data.given) =>
    \A i \in DOMAIN schema :
      LET value == Get(data.map, schema[i].name)
      IN  (schema[i].type = "json" /\ value.t \in {"object", "array"})
            => formData[schema[i].name] = Str(JSONStringify(value))


\* the list has more than one page and shows one of them
PageWithinPages == list.totalPages > 1 /\ list.currentPage \in 1..list.totalPages

\* C29: with totalPages > 1 and currentPage within 1..totalPages, the
\* numbered buttons are consecutive pages from max(1, currentPage - 2), at
\* most 5, all within 1..totalPages, currentPage among them; Previous is
\* disabled exactly on page 1 and Next exactly on the last page; and every
\* page a click emits lies within 1..totalPages
C29_PaginationWithinPages ==
  /\ [](PageWithinPages =>
         LET pages == paginationPages(list.currentPage, list.totalPages)
         IN  /\ Len(pages) \in 1..5
             /\ \A i \in DOMAIN pages :
                  /\ pages[i] = Larger(1, list.currentPage - 2) + (i - 1)
                  /\ pages[i] \in 1..list.totalPages
             /\ list.currentPage \in Range(pages)
             /\ PreviousDisabled(list.currentPage) <=> list.currentPage = 1
             /\ NextDisabled(list.currentPage, list.totalPages)
                  <=> list.currentPage = list.totalPages)
  /\ [][(PageWithinPages /\ call' # call)
          => (call'.fn = "pageChange" /\ call'.value \in 1..list.totalPages)]_vars

\* on the last of more than five pages, reached by a click, the buttons stop
\* at the last page
C29_Witness ==
  /\ call.fn = "pageChange"
  /\ list.some
  /\ list.totalPages > 5
  /\ list.currentPage = list.totalPages
  /\ Len(paginationPages(list.currentPage, list.totalPages)) = 3


\* the answer the backend gave to a call, and whether it gave one
Asked(request) == \E i \in DOMAIN pbResponses : pbCalls[i] = request
AnswerTo(request) ==
  pbResponses[CHOOSE i \in DOMAIN pbResponses : pbCalls[i] = request]
ProbeSucceeded(name) == Asked(Probe(name)) /\ ~AnswerTo(Probe(name)).rejected

\* C30: getCollections never rejects; when the admin listing fails it
\* resolves to one entry per known name whose getList(1, 1) probe succeeded,
\* in the order of the known names: the fetched collection's entry when
\* fetching it succeeded, the basic entry otherwise; it probes every known
\* name, in order, once
C30_FallbackListsAccessible ==
  Called("getCollections") =>
    /\ ~call.threw
    /\ AnswerTo(GetFullList).rejected =>
         LET accessible == SelectSeq(knownCollections, ProbeSucceeded)
         IN  /\ SelectSeq(pbCalls, LAMBDA request : request.method = "getList")
                  = [i \in DOMAIN knownCollections |-> Probe(knownCollections[i])]
             /\ Len(call.value) = Len(accessible)
             /\ \A k \in DOMAIN accessible :
                  LET fetched == AnswerTo(GetOne(accessible[k]))
                  IN  IF fetched.rejected
                      THEN /\ call.value[k] = BasicEntry(accessible[k])
                           /\ call.value[k].type = Str(<<"b", "a", "s", "e">>)
                           /\ call.value[k].schema = Arr(<<>>)
                      ELSE /\ call.value[k].id = fetched.value.id
                           /\ call.value[k].name = Str(accessible[k])
                           /\ call.value[k].schema = SchemaEntries(fetched.value.schema)

\* the listing failed; a probe failed, a later one succeeded with its schema
\* fetched, and another succeeded with its schema not fetched
C30_Witness ==
  /\ Called("getCollections")
  /\ AnswerTo(GetFullList).rejected
  /\ ~ProbeSucceeded(knownCollections[1])
  /\ ProbeSucceeded(knownCollections[2]) /\ ~AnswerTo(GetOne(knownCollections[2])).rejected
  /\ ProbeSucceeded(knownCollections[3]) /\ AnswerTo(GetOne(knownCollections[3])).rejected
  /\ Len(call.value) >= 2

====
